---- MODULE Spec2Model ----
(***************************************************************************)
(* State-machine model of the DJ client core (dj_client/src-tauri/src):    *)
(*   - AudioBuffer, the circular sample store      (audio/capture.rs)      *)
(*   - VoiceStreamer, framing and bounded queue    (voice.rs)              *)
(*   - run_bridge, tick loop and reconnect loop    (lib.rs)                *)
(*   - DjClient::connect, handshake and its tasks  (protocol/client.rs)    *)
(*   - BassLane, the kick detector                 (audio/fft.rs)          *)
(*   - PatternEngine and the batch_update entities (patterns.rs, lib.rs)   *)
(*   - AudioCaptureHandle, its worker and callback (audio/capture.rs)      *)
(* Each subsystem has its own next-state relation and specification; the   *)
(* variables of the other subsystems stay unchanged under it.              *)
(***************************************************************************)
EXTENDS Integers, Sequences, FiniteSets, TLC

----------------------------------------------------------------------------
(* Bounds of the model (not program constants).                            *)

\* largest AudioBuffer capacity explored
MaxCap == 3
\* largest sample value pushed (samples are drawn from 0..MaxVal)
MaxVal == 2
\* longest slice handed to one AudioBuffer::push_samples call
MaxPushLen == 4
\* total number of samples pushed to the AudioBuffer in one behaviour
MaxPushed == 5
\* total number of voice frames produced by one VoiceStreamer in one behaviour
MaxProduced == 52
\* frames the voice streamer produces in a behaviour of bridge ticks
MaxTickProduced == 6
\* last second of the clock of a connection
MaxTime == 8
\* most messages one connection queues and writes in one behaviour
MaxWire == 4
\* most analyze calls made on one FftAnalyzer in one behaviour
MaxFrame == 44
\* the same when the input is a train of kicks at a steady frame rate
MaxKickFrame == 84
\* the same when presets are applied between the calls
MaxPresetFrame == 12
\* age, in time units, at which the time since the last output beat saturates
MaxOutAge == 24
\* frames one connection of the bridge emits (route model)
MaxRouteFrames == 3
\* direct sessions started (route model)
MaxDirectConns == 2
\* largest value of a BassLane's samples_since_onset
MaxBassSamples == 8000
\* samples the stream callback pushes in one behaviour
MaxStream == 4

----------------------------------------------------------------------------
(* Generic helpers.                                                        *)

Min(a, b) == IF a < b THEN a ELSE b

Max(a, b) == IF a > b THEN a ELSE b

\* the last n elements of s (all of s when it has fewer than n elements)
LastN(s, n) == IF n >= Len(s) THEN s ELSE SubSeq(s, Len(s) - n + 1, Len(s))

\* all sequences over S of length 0..n
SeqsUpTo(S, n) == UNION {[1..k -> S] : k \in 0..n}

----------------------------------------------------------------------------
VARIABLES
    \* ---- AudioBuffer (audio/capture.rs) ----
    capacity,       \* AudioBuffer.capacity
    samples,        \* AudioBuffer.samples, a sequence of length capacity
    write_pos,      \* AudioBuffer.write_pos, 0-based
    pushed,         \* history: concatenation of every push_samples argument
    latest_count,   \* argument of the last get_latest call (-1: none yet)
    latest,         \* value returned by the last get_latest call
    \* ---- VoiceStreamer (voice.rs) ----
    enabled,          \* VoiceStreamer.enabled (AtomicBool)
    voice_seq,        \* VoiceStreamer.seq (AtomicU64)
    residual_len,     \* inner.residual.len()
    frame_buffer_len, \* inner.frame_buffer.len()
    frames,           \* inner.frames: queue of frames, oldest first; a frame
                      \* is named by its production number 1, 2, 3, ...
    push_pending,     \* mono length of a push_samples call that has passed
                      \* its enabled check and waits for the inner lock (-1: none)
    produced,         \* history: number of frames enqueued so far
    drained,          \* history: number of frames drain_frames returned so far
    drain_result,     \* value returned by the last drain_frames call
    mono_total,       \* history: mono sample-frames push_samples has taken
                      \* in, as long as no set_enabled(false) has thrown
                      \* buffered samples away (-1 from then on)
    emptied_at,       \* history: frames produced when the queue was last
                      \* emptied (drain_frames, set_enabled(false))
    voice_sent,       \* the voice_audio messages the bridge tick that has
                      \* just finished has sent (seq of each)
    voice_send_failed,  \* whether a send of that tick failed (the channel
                      \* was closed) and ended its loop
    \* ---- run_bridge and the AppState it shares (lib.rs, state.rs) ----
    b_pc,               \* position of the bridge task in run_bridge
    reconnect_count,    \* run_bridge: reconnect_count
    shutdown_requested, \* run_bridge: shutdown_requested
    delay_secs,         \* run_bridge: delay_secs of the current backoff
    waited,             \* seconds slept so far in the current backoff sleep
    bridge_shutdown_tx, \* AppState.bridge_shutdown_tx is Some
    shutdown_sig,       \* a () is queued in the bridge shutdown channel
    client,             \* AppState.client: "none" or "some"
    sess_connected,     \* ConnectionState.connected of that client
    sock_open,          \* the peer has not closed or failed the session socket
    writer_alive,       \* the session writer task still holds rx
    hb_alive,           \* the session heartbeat task is still running
    chan_msgs,          \* the session outbound channel holds unsent messages
    audio_capture,      \* AppState.audio_capture is Some
    status_connected,   \* AppState.status.connected
    status_error,       \* AppState.status.error (message kind)
    cmd_pc,             \* position of the disconnect command handler
    consec_failed,      \* history: failed reconnect attempts since the last
                        \* successful connection
    delays,             \* history: delay_secs of each backoff since then
    auth_failed,        \* history: a reconnect attempt failed with an
                        \* authentication error
    shutdown_received,  \* history: the bridge took the shutdown signal
    exit_reason,        \* history: how the bridge task ended
    \* ---- DjClient::connect and its tasks (protocol/client.rs) ----
    c_pc,               \* position in connect(): new, handshake, ready, ...
    c_creds,            \* credentials in DjClientConfig
    c_result,           \* what connect() returned
    now,                \* the clock, in seconds
    deadline,           \* connect(): deadline of the handshake loop
    cs_connected,       \* ConnectionState.connected
    cs_authenticated,   \* ConnectionState.authenticated
    wire,               \* messages written to the socket, in order
    out_chan,           \* messages queued in the outbound channel (tx / rx)
    c_writer,           \* writer task: none, running, ended
    c_reader,           \* reader task: none, running, ended
    hb_pc,              \* heartbeat task: none, sleeping, ticking, ended
    hb_due,             \* when the heartbeat task's sleep / next tick is due
    hs_end,             \* history: when the handshake loop ended (-1: not yet)
    hs_how,             \* history: how it ended: clock_sync or timeout
    first_hb_at,        \* history: when the first heartbeat was sent (-1: none)
    auth_success_seen,  \* history: an auth_success frame was received
    \* ---- FftAnalyzer (audio/fft.rs) ----
    fa,                 \* the FftAnalyzer: a record of its fields
    analysis,           \* the AnalysisResult the last analyze call returned
    since_beat,         \* history: analyze calls since the last one that
                        \* reported a beat (-1: no beat yet; saturates at 8)
    beat_gap,           \* history: when the last call reported a beat, the
                        \* number of calls since the beat before (-1: none)
    applied_preset,     \* history: index of the preset the last step applied
                        \* (0: the last step was no apply_preset)
    \* ---- get_preset (audio/fft.rs) ----
    lookup_name,        \* argument of the last get_preset call
    lookup_result,      \* its result: 0 for None, else the preset's index
                        \* (-1: no call yet)
    \* ---- WebSocket URLs (lib.rs, protocol/client.rs) ----
    url_host,           \* the host a URL is built for
    url_site,           \* where: the session URL or the direct route URL
    url_result,         \* the scheme chosen ("none": not yet)
    \* ---- run_bridge: direct route and descriptor frames (lib.rs) ----
    FRAME_SEQ,          \* the static frame counter
    conn_state,         \* ConnectionState of the client in AppState
    route_pc,           \* per bridge task: where run_bridge stands
    rb,                 \* per bridge task: the locals of run_bridge
    shutdown_sent,      \* per bridge task: a () waits in its shutdown_rx
    mc_sessions,        \* the direct sessions started so far
    vj_frames,          \* per bridge task: the seq of the dj_audio_frame
                        \* messages sent in its current connection
    last_tick           \* the tick that has just finished (task 0: the
                        \* last step was no end of a tick): its task, its
                        \* snapshot of conn_state, the messages it sent on
                        \* a direct session

VARIABLES
    \* ---- BassLane (audio/fft.rs) ----
    bl_sample_rate,       \* BassLane.sample_rate
    cooldown_samples,     \* BassLane.cooldown_samples
    samples_since_onset,  \* BassLane.samples_since_onset (u32)
    bl_kick,              \* kick_detected of the last process call
    bl_at_kick,           \* history: samples_since_onset at the test of the
                          \* last process call when it reported a kick (-1
                          \* when it reported none)
    bl_true_since,        \* history: samples processed since the last call
                          \* that reported a kick (-1: no kick so far)
    bl_gap,               \* history: when the last call reported a kick that
                          \* was not the first, the samples processed after
                          \* the previous kick's call, this call's included
                          \* (-1 otherwise)
    \* ---- PatternEngine and the entities of batch_update ----
    pattern_engine,       \* run_bridge's pattern_engine: <<>> or <<engine>>
    batch,                \* the entities of the batch_update just built:
                          \* how the evaluation went and where they are from
    \* ---- ConnectionState (protocol/client.rs) ----
    pattern_change,   \* history: whether the last set_pattern returned Err,
                      \* and the engine before that call
    client_state,         \* DjClient.state
    last_mode,            \* history: route_mode of the last message that
                          \* carried one (<<>>: none so far)
    last_msg,             \* history: type of the last inbound message
    last_msg_mode,        \* history: its route_mode (<<>>: absent)
    \* ---- AudioCaptureHandle and its threads (audio/capture.rs, lib.rs) ----
    cap_pc,               \* the command side: start_capture, stop(), Drop
    start_result,         \* what start_capture returned ("none": not yet)
    app_audio_capture,    \* AppState.audio_capture is Some
    source_id,            \* the source_id start_capture was called with
    thread_handle,        \* AudioCaptureHandle.thread_handle is Some
    command_rx,           \* Stop commands waiting in the channel
    w_pc,                 \* position of the audio-capture thread
    w_error,              \* the Err run_audio_thread returned ("none")
    buffer_lock,          \* holder of the AudioBuffer mutex
    analyzer_lock,        \* holder of the FftAnalyzer mutex
    cb_pc,                \* position of the stream's data callback
    cb_left,              \* samples its push_samples call has still to store
    latest_result,        \* the shared AnalysisResult slot; fft_is_beat is
                          \* history: is_beat as analyze returned it
    \* ---- the tunables of the shared analyzer (lib.rs, capture.rs) ----
    active_preset,        \* AppState.active_preset (index in get_presets)
    ana_tunables,         \* attack, release, beat_threshold, bass_weight and
                          \* band_sensitivity of the shared FftAnalyzer
    \* ---- the histories of an FftAnalyzer (audio/fft.rs) ----
    hist,                 \* the lengths of beat_history, flux_history,
                          \* last_beat_times, ioi_history and tempo_histogram,
                          \* with beat_cooldown and last_onset_time.is_some()
    \* ---- an FftAnalyzer in numbers (audio/fft.rs), thousandths ----
    na,                   \* the analyzer: band_max, smoothed_bands, the
                          \* histories with their values, the tempo, the clock
    na_result,            \* the AnalysisResult of its last analyze call
    \* ---- AppState between bridge tasks and a later connect (lib.rs) ----
    st_client,            \* AppState.client: 0 is None, else the DjClient
    st_shutdown_tx,       \* AppState.bridge_shutdown_tx: 0 is None, else the
                          \* task whose shutdown_rx it feeds
    clients_open,         \* the DjClients that are connected
    sd_chan,              \* per task: a () waits in its shutdown channel
    bt_pc,                \* per task: position in run_bridge
    bt_loc,               \* per task: shutdown_requested, reconnect_count
                          \* and the client its cleanup took
    cc_pc,                \* position of the later connect_with_code call
    cc_old_tx,            \* the old_tx it took (0: None)
    st_last,              \* history: the last write of a bridge task to
                          \* AppState.client or .bridge_shutdown_tx
    \* ---- the mutexes (parking_lot::Mutex) and their users ----
    lk_holder,            \* per mutex: the actor that holds it ("none")
    lk_prog,              \* per actor: the lock operations of the code it
                          \* is running, in program order
    lk_pc,                \* per actor: index of its next operation
    lk_worker,            \* the audio-capture thread: "loop", "exiting" or
                          \* "ended"
    lk_stop_sent          \* AudioCommand::Stop waits in the channel

ringVars == <<capacity, samples, write_pos, pushed, latest_count, latest>>

voiceVars == <<enabled, voice_seq, residual_len, frame_buffer_len, frames,
               push_pending, produced, drained, drain_result, mono_total,
               emptied_at, voice_sent, voice_send_failed>>

bridgeVars == <<b_pc, reconnect_count, shutdown_requested, delay_secs, waited,
                bridge_shutdown_tx, shutdown_sig, client, sess_connected,
                sock_open, writer_alive, hb_alive, chan_msgs, audio_capture,
                status_connected, status_error, cmd_pc, consec_failed, delays,
                auth_failed, shutdown_received, exit_reason>>

connVars == <<c_pc, c_creds, c_result, now, deadline, cs_connected,
              cs_authenticated, wire, out_chan, c_writer, c_reader, hb_pc,
              hb_due, hs_end, hs_how, first_hb_at, auth_success_seen>>

analyzerVars == <<fa, analysis, since_beat, beat_gap, applied_preset>>

presetVars == <<lookup_name, lookup_result>>

\* the subsystems next to the ring buffer, voice, bridge and connection
hostVars == <<url_host, url_site, url_result>>

routeVars == <<FRAME_SEQ, conn_state, route_pc, rb, shutdown_sent,
               mc_sessions, vj_frames, last_tick>>

bassVars == <<bl_sample_rate, cooldown_samples, samples_since_onset, bl_kick,
              bl_at_kick, bl_true_since, bl_gap>>

\* the subsystems next to these
patternVars == <<pattern_engine, batch, pattern_change>>

stateVars == <<client_state, last_mode, last_msg, last_msg_mode>>

capVars == <<cap_pc, start_result, app_audio_capture, source_id,
             thread_handle, command_rx, w_pc, w_error, buffer_lock,
             analyzer_lock, cb_pc, cb_left, latest_result>>

tuneVars == <<active_preset, ana_tunables>>

lenVars == <<hist>>

\* the subsystems next to these
numVars == <<na, na_result>>

handVars == <<st_client, st_shutdown_tx, clients_open, sd_chan, bt_pc,
              bt_loc, cc_pc, cc_old_tx, st_last>>

lockVars == <<lk_holder, lk_prog, lk_pc, lk_worker, lk_stop_sent>>

ext4Vars == <<lenVars, numVars, handVars, lockVars>>

ext3Vars == <<tuneVars, ext4Vars>>

ext2Vars == <<bassVars, patternVars, stateVars, capVars, ext3Vars>>

ext1Vars == <<analyzerVars, presetVars, hostVars, routeVars>>

extVars == <<ext1Vars, ext2Vars>>

nonRouteVars == <<ringVars, voiceVars, bridgeVars, connVars, analyzerVars,
                  presetVars, hostVars, ext2Vars>>

baseVars == <<ringVars, voiceVars, bridgeVars, connVars, ext1Vars>>

nonBassVars == <<baseVars, patternVars, stateVars, capVars, ext3Vars>>

nonPatternVars == <<baseVars, bassVars, stateVars, capVars, ext3Vars>>

nonStateVars == <<baseVars, bassVars, patternVars, capVars, ext3Vars>>

\* the capture threads work on the AudioBuffer of ringVars
nonCapVars == <<voiceVars, bridgeVars, connVars, ext1Vars, bassVars,
                patternVars, stateVars, ext4Vars>>

\* the subsystems of the first three groups
oldVars == <<baseVars, bassVars, patternVars, stateVars, capVars, tuneVars>>

nonLenVars == <<oldVars, numVars, handVars, lockVars>>

nonNumVars == <<oldVars, lenVars, handVars, lockVars>>

nonHandVars == <<oldVars, lenVars, numVars, lockVars>>

nonLockVars == <<oldVars, lenVars, numVars, handVars>>

vars == <<capacity, samples, write_pos, pushed, latest_count, latest,
          enabled, voice_seq, residual_len, frame_buffer_len, frames,
          push_pending, produced, drained, drain_result, mono_total,
          emptied_at, voice_sent, voice_send_failed,
          b_pc, reconnect_count, shutdown_requested, delay_secs, waited,
          bridge_shutdown_tx, shutdown_sig, client, sess_connected,
          sock_open, writer_alive, hb_alive, chan_msgs, audio_capture,
          status_connected, status_error, cmd_pc, consec_failed, delays,
          auth_failed, shutdown_received, exit_reason,
          c_pc, c_creds, c_result, now, deadline, cs_connected,
          cs_authenticated, wire, out_chan, c_writer, c_reader, hb_pc, hb_due,
          hs_end, hs_how, first_hb_at, auth_success_seen,
          fa, analysis, since_beat, beat_gap, applied_preset,
          lookup_name, lookup_result,
          url_host, url_site, url_result,
          FRAME_SEQ, conn_state, route_pc, rb, shutdown_sent, mc_sessions,
          vj_frames, last_tick, ext2Vars>>

----------------------------------------------------------------------------
(* AudioBuffer: audio/capture.rs lines 169-209.                            *)

\* AudioBuffer::new: vec![0.0; capacity], write_pos 0
AudioBuffer_new(cap) == [samples |-> [i \in 1..cap |-> 0], write_pos |-> 0]

\* AudioBuffer::push_samples: one store and one index step per sample.
\* samples is 1-based here, so slot write_pos of the code is index write_pos+1.
RECURSIVE push_loop(_, _, _, _)
push_loop(buf, wp, cap, data) ==
    IF data = <<>> THEN [samples |-> buf, write_pos |-> wp]
    ELSE push_loop([buf EXCEPT ![wp + 1] = Head(data)],
                   (wp + 1) % cap, cap, Tail(data))

\* the start index get_latest computes without the wrap-around branch
get_latest_start_nowrap(wp, cap, count) == IF wp >= count THEN wp - count ELSE 0

\* the start index of get_latest: write_pos - count, wrapped
get_latest_start(wp, cap, count) ==
    IF wp >= count THEN wp - count ELSE cap - (count - wp)

\* AudioBuffer::get_latest
get_latest(buf, wp, cap, n) ==
    LET count == Min(n, cap)
        start == get_latest_start(wp, cap, count)
    IN  [i \in 1..count |-> buf[((start + (i - 1)) % cap) + 1]]

\* a freshly constructed AudioBuffer of capacity cap
RingFresh(cap) ==
    /\ capacity = cap
    /\ samples = AudioBuffer_new(cap).samples
    /\ write_pos = AudioBuffer_new(cap).write_pos
    /\ pushed = <<>>
    /\ latest_count = -1
    /\ latest = <<>>


PushSamples ==
    \E data \in SeqsUpTo(0..MaxVal, MaxPushLen) :
        /\ Len(pushed) + Len(data) <= MaxPushed
        /\ LET r == push_loop(samples, write_pos, capacity, data)
           IN  /\ samples' = r.samples
               /\ write_pos' = r.write_pos
        /\ pushed' = pushed \o data
        \* the value a previous get_latest returned is no longer current
        /\ latest_count' = -1
        /\ latest' = <<>>
        /\ UNCHANGED capacity
        /\ UNCHANGED <<voiceVars, bridgeVars, connVars, extVars>>

GetLatest ==
    \E n \in 0..(MaxCap + 1) :
        /\ latest_count' = n
        /\ latest' = get_latest(samples, write_pos, capacity, n)
        /\ UNCHANGED <<capacity, samples, write_pos, pushed>>
        /\ UNCHANGED <<voiceVars, bridgeVars, connVars, extVars>>

NextRing == PushSamples \/ GetLatest

----------------------------------------------------------------------------
(* VoiceStreamer: voice.rs lines 15-22, 104-309.                           *)
(* Sample values are not modelled: residual and frame buffer are their     *)
(* lengths, and an encoded frame is named by its production number.        *)

VOICE_FRAME_SAMPLES == 960

MAX_QUEUED_FRAMES == 50

VOICE_SAMPLE_RATE == 48000

\* the rate every VoiceStreamer of the program is created with
SOURCE_SAMPLE_RATE == 48000

\* slice lengths (interleaved samples) the audio callback hands over
DataLens == {0, 960, 1920, 3840}

\* channel counts the audio callback hands over
ChannelCounts == {0, 1, 2}

\* ceil(a / b) for a >= 0, b > 0
CeilDiv(a, b) == (a + b - 1) \div b

\* data.chunks(channels).count(): length of the mono downmix
mono_len(data_len, channels) == CeilDiv(data_len, Max(channels, 1))

\* resample(): length of the output for an input of input_len samples
resample_len(input_len, from_rate, to_rate) ==
    IF input_len = 0 THEN 0
    ELSE IF from_rate = to_rate THEN input_len
    ELSE (input_len * to_rate) \div from_rate

\* a push_samples that drains nothing from the residual
consumed_len_none(out_len, res_len, from_rate) == 0

\* push_samples: source samples consumed by a resample of out_len outputs
consumed_len(out_len, res_len, from_rate) ==
    Min(IF from_rate = VOICE_SAMPLE_RATE THEN out_len
        ELSE CeilDiv(out_len * from_rate, VOICE_SAMPLE_RATE),
        res_len)

\* encode_pcm_frame: an i16 is 2 little-endian bytes; the STANDARD base64
\* engine writes 4 characters per 3 bytes, the last group padded with '='
encode_pcm_frame(n_samples) ==
    LET bytes == n_samples * 2
    IN  [chars |-> 4 * CeilDiv(bytes, 3), pad |-> (3 - (bytes % 3)) % 3]

\* STANDARD.decode: the number of bytes an encoded string decodes to
base64_decoded_len(enc) == (enc.chars \div 4) * 3 - enc.pad

\* the queue after one more frame f, with no bound on its length
enqueue_unbounded(q, f) == Append(q, f)

\* a full queue that keeps what it holds and drops the frame pushed
enqueue_drop_newest(q, f) ==
    IF Len(q) >= MAX_QUEUED_FRAMES THEN q ELSE Append(q, f)

\* push_samples: push to the frame queue, dropping the oldest when full
enqueue_frame(q, f) ==
    IF Len(q) >= MAX_QUEUED_FRAMES THEN Append(Tail(q), f) ELSE Append(q, f)

\* push_samples: the loop extracting complete 960-sample frames
RECURSIVE extract_frames(_, _, _)
extract_frames(fb_len, q, made) ==
    IF fb_len >= VOICE_FRAME_SAMPLES
    THEN extract_frames(fb_len - VOICE_FRAME_SAMPLES,
                        enqueue_frame(q, made + 1), made + 1)
    ELSE [frame_buffer_len |-> fb_len, frames |-> q, produced |-> made]

\* the sequence number a drained frame gets when the counter is not advanced
drain_seq_stuck(base, i) == base

\* drain_frames: seq.fetch_add(1) for the i-th frame popped (i = 1, 2, ...)
drain_seq(base, i) == base + (i - 1)

\* a freshly constructed VoiceStreamer
VoiceFresh ==
    /\ enabled = FALSE
    /\ voice_seq = 0
    /\ residual_len = 0
    /\ frame_buffer_len = 0
    /\ frames = <<>>
    /\ push_pending = -1
    /\ produced = 0
    /\ drained = 0
    /\ drain_result = <<>>
    /\ mono_total = 0
    /\ emptied_at = 0
    /\ voice_sent = <<>>
    /\ voice_send_failed = FALSE

\* VoiceStreamer::set_enabled
SetEnabled ==
    \E e \in BOOLEAN :
        /\ enabled' = e
        /\ IF ~e
           THEN /\ residual_len' = 0
                /\ frame_buffer_len' = 0
                /\ frames' = <<>>
                /\ mono_total' = IF mono_total = 0 THEN 0 ELSE -1
                /\ emptied_at' = produced
           ELSE UNCHANGED <<residual_len, frame_buffer_len, frames,
                            mono_total, emptied_at>>
        /\ drain_result' = <<>>
        /\ voice_sent' = <<>>
        /\ voice_send_failed' = FALSE
        /\ UNCHANGED <<voice_seq, push_pending, produced, drained>>
        /\ UNCHANGED <<ringVars, bridgeVars, connVars, extVars>>

\* VoiceStreamer::push_samples up to inner.lock(): the enabled check, the
\* empty check and the downmix (the audio callback runs one call at a time)
VoicePushCheckUpTo(limit) ==
    \E data_len \in DataLens, channels \in ChannelCounts :
        /\ push_pending = -1
        /\ produced + ((frame_buffer_len + residual_len
                        + mono_len(data_len, channels)) \div VOICE_FRAME_SAMPLES)
              <= limit
        /\ IF ~enabled \/ data_len = 0
           THEN push_pending' = -1
           ELSE push_pending' = mono_len(data_len, channels)
        /\ drain_result' = <<>>
        /\ voice_sent' = <<>>
        /\ voice_send_failed' = FALSE
        /\ UNCHANGED <<enabled, voice_seq, residual_len, frame_buffer_len,
                       frames, produced, drained, mono_total, emptied_at>>
        /\ UNCHANGED <<ringVars, bridgeVars, connVars, extVars>>

\* push_samples up to the lock, in a session that produces up to
\* MaxProduced frames
VoicePushCheck == VoicePushCheckUpTo(MaxProduced)

\* the same in a session that produces up to MaxTickProduced frames
VoicePushCheckFew == VoicePushCheckUpTo(MaxTickProduced)

\* VoiceStreamer::push_samples from inner.lock() to the end
VoicePushLocked ==
    /\ push_pending >= 0
    /\ LET res     == residual_len + push_pending
           out     == resample_len(res, SOURCE_SAMPLE_RATE, VOICE_SAMPLE_RATE)
           used    == consumed_len(out, res, SOURCE_SAMPLE_RATE)
           r       == extract_frames(frame_buffer_len + out, frames, produced)
       IN  /\ residual_len' = res - used
           /\ frame_buffer_len' = r.frame_buffer_len
           /\ frames' = r.frames
           /\ produced' = r.produced
    /\ mono_total' = IF mono_total >= 0 THEN mono_total + push_pending ELSE -1
    /\ push_pending' = -1
    /\ drain_result' = <<>>
    /\ voice_sent' = <<>>
    /\ voice_send_failed' = FALSE
    /\ UNCHANGED <<enabled, voice_seq, drained, emptied_at>>
    /\ UNCHANGED <<ringVars, bridgeVars, connVars, extVars>>

\* VoiceStreamer::drain_frames
DrainFrames ==
    /\ drain_result' = [i \in 1..Len(frames) |->
                           [frame |-> frames[i], seq |-> drain_seq(voice_seq, i)]]
    /\ voice_seq' = IF frames = <<>> THEN voice_seq
                    ELSE drain_seq(voice_seq, Len(frames)) + 1
    /\ frames' = <<>>
    /\ drained' = drained + Len(frames)
    /\ emptied_at' = produced
    /\ voice_sent' = <<>>
    /\ voice_send_failed' = FALSE
    /\ UNCHANGED <<enabled, residual_len, frame_buffer_len, push_pending,
                   produced, mono_total>>
    /\ UNCHANGED <<ringVars, bridgeVars, connVars, extVars>>

NextVoice == SetEnabled \/ VoicePushCheck \/ VoicePushLocked \/ DrainFrames

\* the frames of a drain the bridge sends when it sends them all
voice_take_all(drained_frames) == drained_frames

\* run_bridge: frames.into_iter().take(3)
voice_take(drained_frames) ==
    SubSeq(drained_frames, 1, Min(3, Len(drained_frames)))

\* run_bridge, step 2.5 of a tick: when the streamer is enabled, drain it
\* and send the first frames as voice_audio; the loop ends at a send that
\* fails (fail_at-th send; 0: none fails)
BridgeVoiceTick ==
    \E fail_at \in 0..3 :
        IF enabled
        THEN LET result == [i \in 1..Len(frames) |->
                              [frame |-> frames[i],
                               seq |-> drain_seq(voice_seq, i)]]
                 taken  == voice_take(result)
             IN  /\ drain_result' = result
                 /\ voice_seq' = IF frames = <<>> THEN voice_seq
                                 ELSE drain_seq(voice_seq, Len(frames)) + 1
                 /\ frames' = <<>>
                 /\ drained' = drained + Len(frames)
                 /\ emptied_at' = produced
                 /\ voice_sent' = IF fail_at = 0 THEN taken
                                  ELSE SubSeq(taken, 1,
                                              Min(fail_at - 1, Len(taken)))
                 /\ voice_send_failed' = (fail_at \in 1..Len(taken))
                 /\ UNCHANGED <<enabled, residual_len, frame_buffer_len,
                                push_pending, produced, mono_total>>
                 /\ UNCHANGED <<ringVars, bridgeVars, connVars, extVars>>
        ELSE /\ fail_at = 0
             /\ voice_sent' = <<>>
             /\ voice_send_failed' = FALSE
             /\ drain_result' = <<>>
             /\ UNCHANGED <<enabled, voice_seq, residual_len,
                            frame_buffer_len, frames, push_pending, produced,
                            drained, mono_total, emptied_at>>
             /\ UNCHANGED <<ringVars, bridgeVars, connVars, extVars>>

NextVoiceTick ==
    SetEnabled \/ VoicePushCheckFew \/ VoicePushLocked \/ BridgeVoiceTick

----------------------------------------------------------------------------
(* run_bridge: lib.rs lines 355-891, with the session tasks of             *)
(* DjClient::connect (client.rs 278-341) and the disconnect command        *)
(* (lib.rs 934-979) as its environment.  DjClient::connect itself is one   *)
(* step here, with the results it can return; its inside is ConnectSpec.   *)

MAX_RECONNECT_ATTEMPTS == 10

MAX_RECONNECT_DELAY_SECS == 30

\* results DjClient::connect can hand to the bridge
ConnectResults == {"ok", "connection_failed", "auth_failed", "send_error"}

\* a backoff delay with no upper limit
reconnect_delay_uncapped(count) == 2 ^ (count - 1)

\* run_bridge: min(1u64 << (reconnect_count - 1), MAX_RECONNECT_DELAY_SECS)
reconnect_delay(count) == Min(2 ^ (count - 1), MAX_RECONNECT_DELAY_SECS)

\* a retry cap that lets one more attempt through
max_retries_reached_late(count) == count > MAX_RECONNECT_ATTEMPTS + 1

\* run_bridge: reconnect_count > MAX_RECONNECT_ATTEMPTS
max_retries_reached(count) == count > MAX_RECONNECT_ATTEMPTS

\* a cleanup that looks at shutdown_requested only while no retry is counted
cleanup_exit_no_shutdown(requested, count) ==
    IF requested /\ count = 0 THEN "shutdown"
    ELSE IF max_retries_reached(count) THEN "max_retries"
    ELSE "backoff"

\* run_bridge after the cleanup: where the task goes for the flag
\* shutdown_requested and the incremented reconnect_count
cleanup_exit(requested, count) ==
    IF requested THEN "shutdown"
    ELSE IF max_retries_reached(count) THEN "max_retries"
    ELSE "backoff"

\* a session as DjClient::connect leaves it on Ok: connected, with its
\* writer, reader and heartbeat tasks spawned
SessionFresh(c, sc, so, wa, ha, cm) ==
    /\ c = "some"
    /\ sc = TRUE
    /\ so = TRUE
    /\ wa = TRUE
    /\ ha = TRUE
    /\ cm = FALSE

\* the state in which connect_with_code / connect_direct spawn run_bridge
BridgeSpawned(cap) ==
    /\ b_pc = "tick_select"
    /\ reconnect_count = 0
    /\ shutdown_requested = FALSE
    /\ delay_secs = 0
    /\ waited = 0
    /\ bridge_shutdown_tx = TRUE
    /\ shutdown_sig = FALSE
    /\ SessionFresh(client, sess_connected, sock_open, writer_alive,
                    hb_alive, chan_msgs)
    /\ audio_capture = cap
    /\ status_connected = TRUE
    /\ status_error = "none"
    /\ cmd_pc = "idle"
    /\ consec_failed = 0
    /\ delays = <<>>
    /\ auth_failed = FALSE
    /\ shutdown_received = FALSE
    /\ exit_reason = "none"

histVars == <<consec_failed, delays, auth_failed, shutdown_received, exit_reason>>

sessVars == <<client, sess_connected, sock_open, writer_alive, hb_alive, chan_msgs>>

\* tick select, interval branch: one whole tick of the loop body
BridgeTick ==
    /\ b_pc = "tick_select"
    /\ IF client = "none"
       THEN \* no client tx / no connection state: "Connection lost", break
            /\ status_connected' = FALSE
            /\ status_error' = "connection_lost"
            /\ b_pc' = "cleanup"
            /\ UNCHANGED chan_msgs
       ELSE IF audio_capture /\ ~writer_alive
       THEN \* tx.send of the audio frame fails: channel closed, break
            /\ status_connected' = FALSE
            /\ status_error' = "connection_lost"
            /\ b_pc' = "cleanup"
            /\ UNCHANGED chan_msgs
       ELSE \* the frame (if there is analysis data) is queued; the status
            \* sync notes a session the reader marked disconnected
            /\ chan_msgs' = (chan_msgs \/ (audio_capture /\ writer_alive))
            /\ IF ~sess_connected
               THEN /\ status_connected' = FALSE
                    /\ status_error' = "server_disconnected"
               ELSE UNCHANGED <<status_connected, status_error>>
            /\ b_pc' = "tick_select"
    /\ UNCHANGED <<reconnect_count, shutdown_requested, delay_secs, waited,
                   bridge_shutdown_tx, shutdown_sig, client, sess_connected,
                   sock_open, writer_alive, hb_alive, audio_capture, cmd_pc>>
    /\ UNCHANGED histVars
    /\ UNCHANGED <<ringVars, voiceVars, connVars, extVars>>

\* tick select, shutdown branch
BridgeRecvShutdownTick ==
    /\ b_pc = "tick_select"
    /\ shutdown_sig
    /\ shutdown_sig' = FALSE
    /\ shutdown_requested' = TRUE
    /\ shutdown_received' = TRUE
    /\ b_pc' = "cleanup"
    /\ UNCHANGED <<reconnect_count, delay_secs, waited, bridge_shutdown_tx,
                   audio_capture, status_connected, status_error, cmd_pc,
                   consec_failed, delays, auth_failed, exit_reason>>
    /\ UNCHANGED sessVars
    /\ UNCHANGED <<ringVars, voiceVars, connVars, extVars>>

\* "Cleanup current connection" up to the backoff select (lib.rs 787-841)
BridgeCleanup ==
    /\ b_pc = "cleanup"
    \* client.take(), client.disconnect(): the writer gets its shutdown and
    \* closes the socket, state.connected = false
    /\ client' = "none"
    /\ sess_connected' = FALSE
    /\ sock_open' = FALSE
    /\ writer_alive' = FALSE
    /\ hb_alive' = FALSE
    /\ chan_msgs' = FALSE
    /\ status_connected' = FALSE
    /\ LET count == IF shutdown_requested THEN reconnect_count
                    ELSE reconnect_count + 1
           exit  == cleanup_exit(shutdown_requested, count)
       IN  /\ reconnect_count' = count
           /\ CASE exit = "shutdown" ->
                    /\ bridge_shutdown_tx' = FALSE
                    /\ b_pc' = "done"
                    /\ exit_reason' = "shutdown_tick"
                    /\ UNCHANGED <<status_error, delay_secs, waited, delays>>
                [] exit = "max_retries" ->
                    /\ bridge_shutdown_tx' = FALSE
                    /\ status_error' = "max_retries"
                    /\ b_pc' = "done"
                    /\ exit_reason' = "max_retries"
                    /\ UNCHANGED <<delay_secs, waited, delays>>
                [] OTHER ->
                    /\ delay_secs' = reconnect_delay(count)
                    /\ waited' = 0
                    /\ delays' = Append(delays, reconnect_delay(count))
                    /\ status_error' = "reconnecting"
                    /\ b_pc' = "backoff"
                    /\ UNCHANGED <<bridge_shutdown_tx, exit_reason>>
    /\ UNCHANGED <<shutdown_requested, shutdown_sig, audio_capture, cmd_pc,
                   consec_failed, auth_failed, shutdown_received>>
    /\ UNCHANGED <<ringVars, voiceVars, connVars, extVars>>

\* one second of the backoff sleep goes by
BackoffSecond ==
    /\ b_pc = "backoff"
    /\ waited < delay_secs
    /\ waited' = waited + 1
    /\ UNCHANGED <<b_pc, reconnect_count, shutdown_requested, delay_secs,
                   bridge_shutdown_tx, shutdown_sig, audio_capture,
                   status_connected, status_error, cmd_pc>>
    /\ UNCHANGED <<sessVars, histVars>>
    /\ UNCHANGED <<ringVars, voiceVars, connVars, extVars>>

\* backoff select, sleep branch: the delay is over, go on to reconnect
BackoffElapsed ==
    /\ b_pc = "backoff"
    /\ waited = delay_secs
    /\ b_pc' = "connecting"
    /\ UNCHANGED <<reconnect_count, shutdown_requested, delay_secs, waited,
                   bridge_shutdown_tx, shutdown_sig, audio_capture,
                   status_connected, status_error, cmd_pc>>
    /\ UNCHANGED <<sessVars, histVars>>
    /\ UNCHANGED <<ringVars, voiceVars, connVars, extVars>>

\* backoff select, shutdown branch: break 'reconnect
BridgeRecvShutdownBackoff ==
    /\ b_pc = "backoff"
    /\ shutdown_sig
    /\ shutdown_sig' = FALSE
    /\ bridge_shutdown_tx' = FALSE
    /\ shutdown_received' = TRUE
    /\ exit_reason' = "shutdown_backoff"
    /\ b_pc' = "done"
    /\ UNCHANGED <<reconnect_count, shutdown_requested, delay_secs, waited,
                   audio_capture, status_connected, status_error, cmd_pc,
                   consec_failed, delays, auth_failed>>
    /\ UNCHANGED sessVars
    /\ UNCHANGED <<ringVars, voiceVars, connVars, extVars>>

\* DjClient::new + client.connect().await and the match on its result
\* (lib.rs 854-889); continue 'reconnect re-enters the tick loop with
\* shutdown_requested = false
BridgeReconnect ==
    \E r \in ConnectResults :
        /\ b_pc = "connecting"
        /\ b_pc' = "tick_select"
        /\ shutdown_requested' = FALSE
        /\ IF r = "ok"
           THEN /\ SessionFresh(client', sess_connected', sock_open',
                                writer_alive', hb_alive', chan_msgs')
                /\ status_connected' = TRUE
                /\ status_error' = "none"
                /\ reconnect_count' = 0
                /\ consec_failed' = 0
                /\ delays' = <<>>
                /\ UNCHANGED auth_failed
           ELSE /\ consec_failed' = consec_failed + 1
                /\ auth_failed' = (auth_failed \/ r = "auth_failed")
                /\ UNCHANGED <<status_connected, status_error,
                               reconnect_count, delays>>
                /\ UNCHANGED sessVars
        /\ UNCHANGED <<delay_secs, waited, bridge_shutdown_tx, shutdown_sig,
                       audio_capture, cmd_pc, shutdown_received, exit_reason>>
        /\ UNCHANGED <<ringVars, voiceVars, connVars, extVars>>

\* session reader task: Message::Close or Err(_) (client.rs 311-322)
SessionReaderLost ==
    /\ client = "some"
    /\ sock_open
    /\ sock_open' = FALSE
    /\ sess_connected' = FALSE
    /\ UNCHANGED <<client, writer_alive, hb_alive, chan_msgs>>
    /\ UNCHANGED <<b_pc, reconnect_count, shutdown_requested, delay_secs,
                   waited, bridge_shutdown_tx, shutdown_sig, audio_capture,
                   status_connected, status_error, cmd_pc>>
    /\ UNCHANGED histVars
    /\ UNCHANGED <<ringVars, voiceVars, connVars, extVars>>

\* session writer task: write.send(msg) of a queued message; it fails once
\* the socket is gone (and may fail with an IO error before the reader saw
\* anything), and the task then ends, dropping rx (client.rs 280-287)
SessionWriterSend ==
    \E ok \in BOOLEAN :
        /\ client = "some"
        /\ writer_alive
        /\ chan_msgs
        /\ ok => sock_open
        /\ chan_msgs' = FALSE
        /\ writer_alive' = ok
        /\ UNCHANGED <<client, sess_connected, sock_open, hb_alive>>
        /\ UNCHANGED <<b_pc, reconnect_count, shutdown_requested, delay_secs,
                       waited, bridge_shutdown_tx, shutdown_sig, audio_capture,
                       status_connected, status_error, cmd_pc>>
        /\ UNCHANGED histVars
        /\ UNCHANGED <<ringVars, voiceVars, connVars, extVars>>

\* session heartbeat task: tx_heartbeat.send, break on a closed channel
\* (client.rs 334-340)
SessionHeartbeat ==
    /\ client = "some"
    /\ hb_alive
    /\ IF writer_alive
       THEN chan_msgs' = TRUE /\ hb_alive' = TRUE
       ELSE chan_msgs' = chan_msgs /\ hb_alive' = FALSE
    /\ UNCHANGED <<client, sess_connected, sock_open, writer_alive>>
    /\ UNCHANGED <<b_pc, reconnect_count, shutdown_requested, delay_secs,
                   waited, bridge_shutdown_tx, shutdown_sig, audio_capture,
                   status_connected, status_error, cmd_pc>>
    /\ UNCHANGED histVars
    /\ UNCHANGED <<ringVars, voiceVars, connVars, extVars>>

\* start_capture / stop_capture commands: AppState.audio_capture set / taken
CaptureToggle ==
    /\ cmd_pc = "idle"
    /\ audio_capture' = ~audio_capture
    /\ UNCHANGED <<b_pc, reconnect_count, shutdown_requested, delay_secs,
                   waited, bridge_shutdown_tx, shutdown_sig, status_connected,
                   status_error, cmd_pc>>
    /\ UNCHANGED <<sessVars, histVars>>
    /\ UNCHANGED <<ringVars, voiceVars, connVars, extVars>>

\* disconnect command up to its sleep: take bridge_shutdown_tx, the capture
\* and the voice streamer, disable the streamer, then signal the bridge or,
\* with no bridge running, disconnect the client directly (lib.rs 936-964)
CmdDisconnect ==
    /\ cmd_pc = "idle"
    /\ cmd_pc' = "reset"
    /\ bridge_shutdown_tx' = FALSE
    /\ audio_capture' = FALSE
    \* streamer.set_enabled(false)
    /\ enabled' = FALSE
    /\ residual_len' = 0
    /\ frame_buffer_len' = 0
    /\ frames' = <<>>
    /\ mono_total' = IF mono_total = 0 THEN 0 ELSE -1
    /\ emptied_at' = produced
    /\ voice_sent' = <<>>
    /\ voice_send_failed' = FALSE
    /\ drain_result' = <<>>
    /\ IF bridge_shutdown_tx
       THEN /\ shutdown_sig' = TRUE
            /\ UNCHANGED sessVars
       ELSE /\ client' = "none"
            /\ sess_connected' = FALSE
            /\ sock_open' = FALSE
            /\ writer_alive' = FALSE
            /\ hb_alive' = FALSE
            /\ chan_msgs' = FALSE
            /\ UNCHANGED shutdown_sig
    /\ UNCHANGED <<b_pc, reconnect_count, shutdown_requested, delay_secs,
                   waited, status_connected, status_error>>
    /\ UNCHANGED histVars
    /\ UNCHANGED <<voice_seq, push_pending, produced, drained>>
    /\ UNCHANGED <<ringVars, connVars, extVars>>

\* disconnect command, "Reset status" (lib.rs 966-977)
CmdDisconnectReset ==
    /\ cmd_pc = "reset"
    /\ cmd_pc' = "idle"
    /\ status_connected' = FALSE
    /\ status_error' = "none"
    /\ UNCHANGED <<b_pc, reconnect_count, shutdown_requested, delay_secs,
                   waited, bridge_shutdown_tx, shutdown_sig, audio_capture>>
    /\ UNCHANGED <<sessVars, histVars>>
    /\ UNCHANGED <<ringVars, voiceVars, connVars, extVars>>

NextBridge ==
    \/ BridgeTick
    \/ BridgeRecvShutdownTick
    \/ BridgeCleanup
    \/ BackoffSecond
    \/ BackoffElapsed
    \/ BridgeRecvShutdownBackoff
    \/ BridgeReconnect
    \/ SessionReaderLost
    \/ SessionWriterSend
    \/ SessionHeartbeat
    \/ CaptureToggle
    \/ CmdDisconnect
    \/ CmdDisconnectReset

----------------------------------------------------------------------------
(* DjClient::connect and the tasks it spawns: client.rs lines 121-344,     *)
(* 381-392, 416-511.  Time is counted in whole seconds.                    *)

\* handshake_timeout = Duration::from_secs(5)
HANDSHAKE_TIMEOUT_SECS == 5

\* DjClientConfig::default().heartbeat_interval = 2.0
HEARTBEAT_INTERVAL_SECS == 2

\* what read.next() can yield: text frames by their "type" (the _bad kinds
\* carry the type but do not deserialize into the message struct), text that
\* is not JSON, non-text frames, a Close frame, an IO error, end of stream
InboundKinds ==
    {"auth_success", "auth_success_bad", "auth_error", "auth_error_bad",
     "clock_sync_request", "status_update", "other", "unparsable",
     "binary", "close", "io_error", "eof"}

\* which credentials the DjClientConfig carries
CredentialKinds == {"code", "dj", "none"}

\* a heartbeat task that sends its first heartbeat at once
heartbeat_first_delay_none(interval) == 0

\* heartbeat task: the sleep before the first interval tick
heartbeat_first_delay(interval) == interval

\* handshake loop: ConnectionState.authenticated after one inbound frame
handshake_auth(kind, was) == was \/ kind = "auth_success"

\* DjClient::new, before connect() is called
ClientFresh(creds) ==
    /\ c_pc = "new"
    /\ c_creds = creds
    /\ c_result = "none"
    /\ now = 0
    /\ deadline = 0
    /\ cs_connected = FALSE
    /\ cs_authenticated = FALSE
    /\ wire = <<>>
    /\ out_chan = <<>>
    /\ c_writer = "none"
    /\ c_reader = "none"
    /\ hb_pc = "none"
    /\ hb_due = 0
    /\ hs_end = -1
    /\ hs_how = "none"
    /\ first_hb_at = -1
    /\ auth_success_seen = FALSE

\* connect(): everything that follows the handshake loop (client.rs
\* 271-343): connected = true, writer, reader and heartbeat task spawned,
\* Ok(()) returned
connect_finish(how) ==
    /\ cs_connected' = TRUE
    /\ c_writer' = "running"
    /\ c_reader' = "running"
    /\ hb_pc' = "sleeping"
    /\ hb_due' = now + heartbeat_first_delay(HEARTBEAT_INTERVAL_SECS)
    /\ c_pc' = "ready"
    /\ c_result' = "ok"
    /\ hs_end' = now
    /\ hs_how' = how

\* connect() returns Err(result) out of the handshake
connect_fail(result) ==
    /\ c_pc' = "failed"
    /\ c_result' = result
    /\ UNCHANGED <<cs_connected, c_writer, c_reader, hb_pc, hb_due, hs_end, hs_how>>

\* one second goes by (the clock starts when the socket is open); a
\* handshake whose deadline has come is woken first
TimePasses ==
    /\ now < MaxTime
    /\ c_pc # "new"
    /\ ~(c_pc = "handshake" /\ now >= deadline)
    /\ now' = now + 1
    /\ UNCHANGED <<c_pc, c_creds, c_result, deadline, cs_connected,
                   cs_authenticated, wire, out_chan, c_writer, c_reader,
                   hb_pc, hb_due, hs_end, hs_how, first_hb_at,
                   auth_success_seen>>
    /\ UNCHANGED <<ringVars, voiceVars, bridgeVars, extVars>>

\* connect() up to the handshake loop: connect_async under its timeout, the
\* choice of the auth message and its write (client.rs 123-187)
ConnectOpen ==
    \E ws_ok \in BOOLEAN, send_ok \in BOOLEAN :
        /\ c_pc = "new"
        /\ IF ~ws_ok
           THEN /\ c_pc' = "failed"
                /\ c_result' = "connection_failed"
                /\ UNCHANGED <<wire, deadline>>
           ELSE IF c_creds = "none"
           THEN /\ c_pc' = "failed"
                /\ c_result' = "auth_failed"
                /\ UNCHANGED <<wire, deadline>>
           ELSE IF ~send_ok
           THEN /\ c_pc' = "failed"
                /\ c_result' = "send_error"
                /\ UNCHANGED <<wire, deadline>>
           ELSE /\ c_pc' = "handshake"
                /\ wire' = Append(wire, IF c_creds = "code" THEN "code_auth"
                                        ELSE "dj_auth")
                /\ deadline' = now + HANDSHAKE_TIMEOUT_SECS
                /\ UNCHANGED c_result
        /\ UNCHANGED <<c_creds, now, cs_connected, cs_authenticated, out_chan,
                       c_writer, c_reader, hb_pc, hb_due, hs_end, hs_how,
                       first_hb_at, auth_success_seen>>
        /\ UNCHANGED <<ringVars, voiceVars, bridgeVars, extVars>>

\* a handshake loop that gives every read.next() the whole timeout
handshake_deadline_per_read(d, t) == t + HANDSHAKE_TIMEOUT_SECS

\* handshake loop: the deadline is set once, before the loop; every
\* iteration waits for what remains of it
handshake_deadline(d, t) == d

\* handshake loop: read.next() yields a frame before the deadline
HandshakeRecv ==
    \E kind \in InboundKinds, send_ok \in BOOLEAN :
        /\ c_pc = "handshake"
        /\ now < deadline
        /\ cs_authenticated' = handshake_auth(kind, cs_authenticated)
        /\ auth_success_seen' = (auth_success_seen \/ kind = "auth_success")
        /\ CASE kind = "auth_error" ->
                  /\ connect_fail("auth_failed")
                  /\ UNCHANGED wire
             [] kind \in {"close", "io_error", "eof"} ->
                  /\ connect_fail("connection_failed")
                  /\ UNCHANGED wire
             [] kind = "clock_sync_request" ->
                  IF send_ok
                  THEN /\ wire' = Append(wire, "clock_sync_response")
                       /\ connect_finish("clock_sync")
                  ELSE /\ connect_fail("send_error")
                       /\ UNCHANGED wire
             [] OTHER ->
                  \* auth_success, status_update, unexpected or unreadable
                  \* frames: stay in the loop
                  /\ UNCHANGED <<c_pc, c_result, wire, cs_connected, c_writer,
                                 c_reader, hb_pc, hb_due, hs_end, hs_how>>
        /\ deadline' = handshake_deadline(deadline, now)
        /\ UNCHANGED <<c_creds, now, out_chan, first_hb_at>>
        /\ UNCHANGED <<ringVars, voiceVars, bridgeVars, extVars>>

\* handshake loop: the deadline has come (remaining.is_zero(), or the
\* timeout around read.next() fires): break
HandshakeTimeout ==
    /\ c_pc = "handshake"
    /\ now >= deadline
    /\ connect_finish("timeout")
    /\ UNCHANGED <<c_creds, now, deadline, cs_authenticated, wire, out_chan,
                   first_hb_at, auth_success_seen>>
    /\ UNCHANGED <<ringVars, voiceVars, bridgeVars, extVars>>

\* heartbeat task: the initial sleep is over; the interval it then creates
\* completes its first tick immediately
HeartbeatWake ==
    /\ hb_pc = "sleeping"
    /\ now >= hb_due
    /\ hb_pc' = "ticking"
    /\ hb_due' = now
    /\ UNCHANGED <<c_pc, c_creds, c_result, now, deadline, cs_connected,
                   cs_authenticated, wire, out_chan, c_writer, c_reader,
                   hs_end, hs_how, first_hb_at, auth_success_seen>>
    /\ UNCHANGED <<ringVars, voiceVars, bridgeVars, extVars>>

\* heartbeat task: interval.tick() and tx_heartbeat.send
HeartbeatSend ==
    /\ hb_pc = "ticking"
    /\ now >= hb_due
    /\ IF c_writer = "running"
       THEN /\ Len(out_chan) + Len(wire) < MaxWire
            /\ out_chan' = Append(out_chan, "dj_heartbeat")
            /\ hb_due' = hb_due + HEARTBEAT_INTERVAL_SECS
            /\ first_hb_at' = IF first_hb_at = -1 THEN now ELSE first_hb_at
            /\ UNCHANGED hb_pc
       ELSE /\ hb_pc' = "ended"
            /\ UNCHANGED <<out_chan, hb_due, first_hb_at>>
    /\ UNCHANGED <<c_pc, c_creds, c_result, now, deadline, cs_connected,
                   cs_authenticated, wire, c_writer, c_reader, hs_end, hs_how,
                   auth_success_seen>>
    /\ UNCHANGED <<ringVars, voiceVars, bridgeVars, extVars>>

\* writer task: rx.recv() then write.send(msg); a failed write ends the task
WriterSend ==
    \E ok \in BOOLEAN :
        /\ c_writer = "running"
        /\ out_chan # <<>>
        /\ out_chan' = Tail(out_chan)
        /\ IF ok
           THEN wire' = Append(wire, Head(out_chan)) /\ UNCHANGED c_writer
           ELSE c_writer' = "ended" /\ UNCHANGED wire
        /\ UNCHANGED <<c_pc, c_creds, c_result, now, deadline, cs_connected,
                       cs_authenticated, c_reader, hb_pc, hb_due, hs_end,
                       hs_how, first_hb_at, auth_success_seen>>
        /\ UNCHANGED <<ringVars, voiceVars, bridgeVars, extVars>>

\* reader task: one frame from the server, through handle_server_message
ReaderRecv ==
    \E kind \in InboundKinds :
        /\ c_reader = "running"
        /\ CASE kind \in {"close", "io_error"} ->
                  /\ cs_connected' = FALSE
                  /\ cs_authenticated' = FALSE
                  /\ c_reader' = "ended"
                  /\ UNCHANGED out_chan
             [] kind = "eof" ->
                  /\ c_reader' = "ended"
                  /\ UNCHANGED <<cs_connected, cs_authenticated, out_chan>>
             [] kind = "auth_success" ->
                  /\ cs_authenticated' = TRUE
                  /\ UNCHANGED <<cs_connected, c_reader, out_chan>>
             [] kind = "auth_error" ->
                  /\ cs_authenticated' = FALSE
                  /\ UNCHANGED <<cs_connected, c_reader, out_chan>>
             [] kind = "clock_sync_request" ->
                  \* let _ = tx.send(clock_sync_response)
                  /\ Len(out_chan) + Len(wire) < MaxWire
                  /\ out_chan' = IF c_writer = "running"
                                 THEN Append(out_chan, "clock_sync_response")
                                 ELSE out_chan
                  /\ UNCHANGED <<cs_connected, cs_authenticated, c_reader>>
             [] OTHER ->
                  UNCHANGED <<cs_connected, cs_authenticated, c_reader, out_chan>>
        /\ auth_success_seen' = (auth_success_seen \/ kind = "auth_success")
        /\ UNCHANGED <<c_pc, c_creds, c_result, now, deadline, wire, c_writer,
                       hb_pc, hb_due, hs_end, hs_how, first_hb_at>>
        /\ UNCHANGED <<ringVars, voiceVars, bridgeVars, extVars>>

\* DjClient::disconnect: the writer takes the shutdown, writes going_offline,
\* closes and ends; connected and authenticated are cleared
ClientDisconnect ==
    /\ c_pc = "ready"
    /\ c_pc' = "disconnected"
    /\ IF c_writer = "running"
       THEN /\ wire' = Append(wire, "going_offline")
            /\ c_writer' = "ended"
       ELSE UNCHANGED <<wire, c_writer>>
    /\ out_chan' = <<>>
    /\ cs_connected' = FALSE
    /\ cs_authenticated' = FALSE
    /\ UNCHANGED <<c_creds, c_result, now, deadline, c_reader, hb_pc, hb_due,
                   hs_end, hs_how, first_hb_at, auth_success_seen>>
    /\ UNCHANGED <<ringVars, voiceVars, bridgeVars, extVars>>

NextConnect ==
    \/ TimePasses
    \/ ConnectOpen
    \/ HandshakeRecv
    \/ HandshakeTimeout
    \/ HeartbeatWake
    \/ HeartbeatSend
    \/ WriterSend
    \/ ReaderRecv
    \/ ClientDisconnect

----------------------------------------------------------------------------
(* FftAnalyzer: audio/fft.rs lines 8-77 and 242-704.                       *)
(* Fractions are integers in hundredths (attack 0.35 is 35) and times are  *)
(* integers in units of 50 ms.  The spectrum is not modelled: of each      *)
(* analyze call the model keeps whether the input is long enough, how much *)
(* time has passed, and the outcome of the comparisons of detect_beat on   *)
(* the bass band; the tempo histogram is kept as the peak test, the        *)
(* refined BPM and the confidence it yields.  The clock and the two time   *)
(* stamps are kept as ages: current_time - last_onset_time and             *)
(* current_time - last_output_beat_time.                                   *)

\* get_presets(); a name is the sequence of its characters
get_presets ==
    << [name |-> <<"a", "u", "t", "o">>, attack |-> 35, release |-> 8, beat_threshold |-> 130,
        bass_weight |-> 70, band_sensitivity |-> <<100, 100, 100, 100, 100>>],
       [name |-> <<"e", "d", "m">>, attack |-> 70, release |-> 15, beat_threshold |-> 110,
        bass_weight |-> 85, band_sensitivity |-> <<150, 80, 90, 120, 100>>],
       [name |-> <<"c", "h", "i", "l", "l">>, attack |-> 25, release |-> 5, beat_threshold |-> 160,
        bass_weight |-> 50, band_sensitivity |-> <<90, 100, 110, 120, 130>>],
       [name |-> <<"r", "o", "c", "k">>, attack |-> 50, release |-> 12, beat_threshold |-> 130,
        bass_weight |-> 65, band_sensitivity |-> <<120, 100, 100, 90, 80>>],
       [name |-> <<"h", "i", "p", "h", "o", "p">>, attack |-> 60, release |-> 10, beat_threshold |-> 120,
        bass_weight |-> 80, band_sensitivity |-> <<140, 90, 100, 110, 90>>],
       [name |-> <<"c", "l", "a", "s", "s", "i", "c", "a", "l">>, attack |-> 20, release |-> 4,
        beat_threshold |-> 180, bass_weight |-> 40,
        band_sensitivity |-> <<80, 100, 120, 130, 140>>] >>

\* detect_beat: the frame cooldown set by a detected onset
BEAT_COOLDOWN_FRAMES == 8

\* detect_beat: min_interval = 0.15 s
MIN_ONSET_INTERVAL == 3

\* _update_bpm_from_onset: (0.25..=1.5).contains(&ioi)
IOI_MIN == 5

IOI_MAX == 30

\* ioi_history: at most 32 entries
IOI_HISTORY_CAP == 32

\* _extract_tempo_from_histogram: clamp(60.0, 200.0)
BPM_MIN == 60

BPM_MAX == 200

\* 60 s in time units times 100: x = age * bpm is 1200 after one beat period
BEAT_PERIOD_SCALE == 1200

\* an age from which an inter-onset interval is longer than IOI_MAX
OnsetAgeCap == IOI_MAX + 1

\* elapsed time units between two analyze calls
FrameGaps == {0, 1}

\* values of new_conf: below 0.3, above 0.55, above 0.65
ConfLevels == {0, 60, 80}

\* tempo_histogram: 201 bins, 40..240 BPM
HISTOGRAM_BPM_MIN == 40

HISTOGRAM_BPM_MAX == 240

\* values of refined_bpm, a weighted mean of histogram bins
RefinedBpms == {HISTOGRAM_BPM_MIN, HISTOGRAM_BPM_MAX}

\* FftAnalyzer::new(AudioConfig::default())
FftAnalyzer_new ==
    [ attack |-> 35, release |-> 8, beat_threshold |-> 130,
      bass_weight |-> 70, band_sensitivity |-> <<100, 100, 100, 100, 100>>,
      smoothed_bands |-> 0,    \* the bass band is above the 0.12 floor: 0 / 1
      beat_cooldown |-> 0,
      onset_age |-> -1,        \* last_onset_time = None
      output_age |-> -1,       \* last_output_beat_time = 0.0
      ioi_len |-> 0,           \* ioi_history.len()
      estimated_bpm |-> 120,
      tempo_confidence |-> 0,
      frame |-> 0 ]

\* an estimated_bpm that is not clamped
bpm_clamp_none(x) == x

\* f32::clamp(60.0, 200.0)
bpm_clamp(x) == Max(BPM_MIN, Min(x, BPM_MAX))

\* an apply_preset that also resets the smoothed bands and the tempo lock
apply_preset_reset(a, preset) ==
    [a EXCEPT !.attack = preset.attack,
              !.release = preset.release,
              !.beat_threshold = preset.beat_threshold,
              !.bass_weight = preset.bass_weight,
              !.band_sensitivity = preset.band_sensitivity,
              !.smoothed_bands = 0,
              !.tempo_confidence = 0]

\* FftAnalyzer::apply_preset
apply_preset(a, preset) ==
    [a EXCEPT !.attack = preset.attack,
              !.release = preset.release,
              !.beat_threshold = preset.beat_threshold,
              !.bass_weight = preset.bass_weight,
              !.band_sensitivity = preset.band_sensitivity]

\* an age after dt more time units, saturating at cap (-1: no time stamp)
age_after(age, dt, cap) == IF age = -1 THEN -1 ELSE Min(age + dt, cap)

\* |x|
Abs(x) == IF x < 0 THEN -x ELSE x

\* _extract_tempo_from_histogram, for a histogram whose peak is at least 1.0
\* when peak_ok, with refined BPM refined and confidence new_conf
extract_tempo_from_histogram(a, peak_ok, refined, new_conf) ==
    IF a.ioi_len < 4 \/ ~peak_ok THEN a
    ELSE LET bpm_delta == Abs(refined - a.estimated_bpm)
             accept == \/ a.tempo_confidence < 30
                       \/ bpm_delta < 12
                       \/ new_conf > a.tempo_confidence
             alpha == IF new_conf > 65 THEN 8 ELSE 18
         IN  IF accept
             THEN [a EXCEPT !.estimated_bpm =
                               bpm_clamp(((100 - alpha) * a.estimated_bpm
                                          + alpha * refined) \div 100),
                            !.tempo_confidence = new_conf]
             ELSE a

\* _update_bpm_from_onset, then _update_tempo_histogram; a.onset_age is the
\* inter-onset interval
update_bpm_from_onset(a, peak_ok, refined, new_conf) ==
    IF a.onset_age = -1 THEN a
    ELSE LET ioi == a.onset_age
             x   == ioi * Max(a.estimated_bpm, BPM_MIN)
             \* best > 0.20 over the ratios to expected, 2 * expected and
             \* 0.5 * expected, with expected = 60 / max(estimated_bpm, 60)
             outlier == /\ Abs(x - BEAT_PERIOD_SCALE) > 240
                        /\ Abs(x - 2 * BEAT_PERIOD_SCALE) > 480
                        /\ Abs(2 * x - BEAT_PERIOD_SCALE) > 240
         IN  IF ioi < IOI_MIN \/ ioi > IOI_MAX THEN a
             ELSE IF a.ioi_len >= 4 /\ a.tempo_confidence > 30 /\ outlier
             THEN a
             ELSE extract_tempo_from_histogram(
                      [a EXCEPT !.ioi_len = Min(a.ioi_len + 1, IOI_HISTORY_CAP)],
                      peak_ok, refined, new_conf)

\* detect_beat for an analyzer whose ages are those of current_time.
\* inp.is_onset: the bass jump passes the flux and bass thresholds;
\* inp.pred_ok: bass > avg * 0.85 and bass_flux > flux_mean * 0.6;
\* inp.near: the phase test when output_age is saturated
detect_beat(a, inp, out_cap) ==
    LET cooled   == IF a.beat_cooldown > 0
                    THEN [a EXCEPT !.beat_cooldown = a.beat_cooldown - 1]
                    ELSE a
        can_fire == cooled.onset_age = -1
                        \/ cooled.onset_age >= MIN_ONSET_INTERVAL
        x        == cooled.output_age * Max(cooled.estimated_bpm, BPM_MIN)
        phase    == x % BEAT_PERIOD_SCALE
        near_boundary ==
            IF cooled.output_age >= out_cap THEN inp.near
            ELSE phase * 10 < BEAT_PERIOD_SCALE
                    \/ phase * 10 > 9 * BEAT_PERIOD_SCALE
    IN  IF cooled.beat_cooldown = 0 /\ inp.is_onset /\ can_fire
        THEN [a |-> [update_bpm_from_onset(cooled, inp.peak_ok, inp.refined,
                                           inp.new_conf)
                        EXCEPT !.onset_age = 0,
                               !.output_age = 0,
                               !.beat_cooldown = BEAT_COOLDOWN_FRAMES],
              is_beat |-> TRUE]
        ELSE IF /\ cooled.tempo_confidence > 55
                /\ cooled.output_age # -1
                /\ x * 10 > 8 * BEAT_PERIOD_SCALE
                /\ near_boundary
                /\ inp.pred_ok
        THEN [a |-> [cooled EXCEPT !.output_age = 0], is_beat |-> TRUE]
        ELSE [a |-> cooled, is_beat |-> FALSE]

\* AnalysisResult::default()
AnalysisResult_default == [is_beat |-> FALSE, bpm |-> 0]

\* FftAnalyzer::analyze, dt time units after the previous call
analyze(a, inp, out_cap) ==
    LET timed == [a EXCEPT !.frame = a.frame + 1,
                           !.onset_age = age_after(a.onset_age, inp.dt,
                                                   OnsetAgeCap),
                           !.output_age = age_after(a.output_age, inp.dt,
                                                    out_cap)]
    IN  IF inp.short THEN [a |-> timed, result |-> AnalysisResult_default]
        ELSE LET banded == [timed EXCEPT !.smoothed_bands = inp.bass]
                 r      == detect_beat(banded, inp, out_cap)
             IN  [a |-> r.a,
                  result |-> [is_beat |-> r.is_beat,
                              bpm |-> r.a.estimated_bpm]]

\* inputs of one analyze call that make a difference in analyzer state a
AnalyzeInputs(a, out_cap) ==
    LET Base == [short |-> FALSE, dt |-> 0, bass |-> 0, is_onset |-> FALSE,
                 pred_ok |-> FALSE, peak_ok |-> FALSE, refined |-> 120,
                 new_conf |-> 0, near |-> FALSE]
        \* is_onset implies bass > 0.12 and pred_ok
        Bass == { <<0, FALSE, FALSE>>, <<0, FALSE, TRUE>>, <<1, FALSE, FALSE>>,
                  <<1, FALSE, TRUE>>, <<1, TRUE, TRUE>> }
        Tempo(on) == IF on /\ a.onset_age # -1 /\ a.ioi_len >= 3
                     THEN {<<FALSE, 120, 0>>}
                            \cup {<<TRUE, r, c>> : r \in RefinedBpms,
                                                   c \in ConfLevels}
                     ELSE {<<FALSE, 120, 0>>}
        Near(dt) == IF a.output_age # -1 /\ a.output_age + dt >= out_cap
                    THEN BOOLEAN ELSE {FALSE}
    IN  {[Base EXCEPT !.short = TRUE, !.dt = dt] : dt \in FrameGaps}
        \cup UNION UNION UNION
             {{{{[Base EXCEPT !.dt = dt, !.bass = b[1], !.is_onset = b[2],
                              !.pred_ok = b[3], !.peak_ok = t[1],
                              !.refined = t[2], !.new_conf = t[3],
                              !.near = n]
                   : n \in Near(dt)} : t \in Tempo(b[2])} : b \in Bass}
                   : dt \in FrameGaps}

\* the inputs of a train of kicks analyzed at one call per time unit: the
\* bass is above the floor, a call sees the onset of a kick or nothing, and
\* the histogram has its peak in its last bin, with a confidence below 0.3
\* or above 0.55
KickInputs(a) ==
    LET Base == [short |-> FALSE, dt |-> 1, bass |-> 1, is_onset |-> FALSE,
                 pred_ok |-> FALSE, peak_ok |-> FALSE, refined |-> 120,
                 new_conf |-> 0, near |-> FALSE]
    IN  {[Base EXCEPT !.short = TRUE], Base}
        \cup (IF a.onset_age # -1 /\ a.ioi_len >= 3
              THEN {[Base EXCEPT !.is_onset = TRUE, !.pred_ok = TRUE,
                                 !.peak_ok = TRUE,
                                 !.refined = HISTOGRAM_BPM_MAX,
                                 !.new_conf = c] : c \in {0, 60}}
              ELSE {[Base EXCEPT !.is_onset = TRUE, !.pred_ok = TRUE]})

\* a freshly constructed analyzer, before any analyze call
AnalyzerFresh ==
    /\ fa = FftAnalyzer_new
    /\ analysis = AnalysisResult_default
    /\ since_beat = -1
    /\ beat_gap = -1
    /\ applied_preset = 0

\* one pass of the capture loop through FftAnalyzer::analyze, with its
\* input drawn from inputs, for an analyzer that has made fewer than limit
\* calls
AnalyzeStep(inputs, limit) ==
    /\ fa.frame < limit
    /\ \E inp \in inputs :
          LET r == analyze(fa, inp, MaxOutAge)
          IN  /\ fa' = r.a
              /\ analysis' = r.result
              /\ IF r.result.is_beat
                 THEN /\ beat_gap' = IF since_beat = -1 THEN -1
                                     ELSE since_beat + 1
                      /\ since_beat' = 0
                 ELSE /\ beat_gap' = -1
                      /\ since_beat' = IF since_beat = -1 THEN -1
                                       ELSE Min(since_beat + 1,
                                                BEAT_COOLDOWN_FRAMES)
    /\ applied_preset' = 0
    /\ UNCHANGED presetVars
    /\ UNCHANGED <<ringVars, voiceVars, bridgeVars, connVars, hostVars,
                   routeVars, ext2Vars>>

\* analyze on any input
Analyze == AnalyzeStep(AnalyzeInputs(fa, MaxOutAge), MaxFrame)

\* analyze on a train of kicks
AnalyzeKicks == AnalyzeStep(KickInputs(fa), MaxKickFrame)

\* analyze on any input, in a session in which presets are applied
AnalyzeFew == AnalyzeStep(AnalyzeInputs(fa, MaxOutAge), MaxPresetFrame)

\* FftAnalyzer::apply_preset with one of the built-in presets
ApplyPreset ==
    /\ \E i \in 1..Len(get_presets) :
          /\ fa' = apply_preset(fa, get_presets[i])
          /\ applied_preset' = i
    /\ UNCHANGED <<analysis, since_beat, beat_gap, presetVars>>
    /\ UNCHANGED <<ringVars, voiceVars, bridgeVars, connVars, hostVars,
                   routeVars, ext2Vars>>

NextBeat == Analyze

NextTempo == AnalyzeKicks

NextAnalyzer == AnalyzeFew \/ ApplyPreset

----------------------------------------------------------------------------
(* get_preset: audio/fft.rs lines 73-77.  A name is a sequence of          *)
(* characters; KELVIN stands for U+212A, whose lower case is k.            *)

\* upper-case characters and, at the same index, their lower case
UpperChars == << "A", "C", "D", "E", "H", "I", "K", "L", "M", "O", "P", "R",
                 "S", "T", "U", "KELVIN" >>

LowerChars == << "a", "c", "d", "e", "h", "i", "k", "l", "m", "o", "p", "r",
                 "s", "t", "u", "k" >>

\* a lower-casing that leaves every character as it is
lower_char_id(c) == c

\* char::to_lowercase
lower_char(c) ==
    IF \E i \in 1..Len(UpperChars) : UpperChars[i] = c
    THEN LowerChars[CHOOSE i \in 1..Len(UpperChars) : UpperChars[i] = c]
    ELSE c

\* str::to_lowercase
to_lowercase(s) == [i \in 1..Len(s) |-> lower_char(s[i])]

\* get_preset: 0 for None, else the index of the preset found
get_preset(name) ==
    LET lower == to_lowercase(name)
        found == {i \in 1..Len(get_presets) : get_presets[i].name = lower}
    IN  IF found = {} THEN 0
        ELSE CHOOSE i \in found : \A j \in found : i <= j

\* the spellings of s in which each character is as in s or in an upper case
RECURSIVE CaseVariants(_)
CaseVariants(s) ==
    IF s = <<>> THEN {<<>>}
    ELSE {<<c>> \o t :
            c \in {Head(s)} \cup {UpperChars[i] : i \in
                        {j \in 1..Len(UpperChars) : LowerChars[j] = Head(s)}},
            t \in CaseVariants(Tail(s))}

\* names that are no preset's
OtherNames ==
    { <<>>, <<"e", "d">>, <<"e", "d", "m", " ">>, <<"e", "d", "m", "m">>,
      <<" ", "e", "d", "m">>, <<"e", "-", "d", "m">>, <<"a", "u", "t", "0">>,
      <<"n", "o", "n", "e", "x", "i", "s", "t", "e", "n", "t">>,
      <<"R", "O", "C">>, <<"H", "I", "P">>, <<"H", "O", "P">> }

\* names looked up
NameInputs ==
    OtherNames \cup UNION {CaseVariants(get_presets[i].name) :
                              i \in 1..Len(get_presets)}

\* no lookup made yet
PresetFresh ==
    /\ lookup_name = <<>>
    /\ lookup_result = -1

\* a call of get_preset, as the set_preset command and the bridge make it
GetPreset ==
    /\ \E name \in NameInputs :
          /\ lookup_name' = name
          /\ lookup_result' = get_preset(name)
    /\ UNCHANGED analyzerVars
    /\ UNCHANGED <<ringVars, voiceVars, bridgeVars, connVars, hostVars,
                   routeVars, ext2Vars>>

NextPreset == GetPreset

----------------------------------------------------------------------------
(* is_local_host and the scheme of the WebSocket URLs: lib.rs lines 44-56  *)
(* and 122-127, protocol/client.rs lines 127-135.  A host is the sequence  *)
(* of its labels (the text between the dots), a label the sequence of its  *)
(* characters.                                                             *)

\* the decimal digits, the digit of value v at index v + 1
DigitChars == <<"0", "1", "2", "3", "4", "5", "6", "7", "8", "9">>

\* the value of a digit character
digit_value(c) == (CHOOSE i \in 1..Len(DigitChars) : DigitChars[i] = c) - 1

\* Ipv4Addr::from_str on one label: the octet, or -1 when the label is not
\* 1 to 3 decimal digits, has a leading zero, or is above 255
parse_octet(label) ==
    IF Len(label) = 0 \/ Len(label) > 3 THEN -1
    ELSE IF \E k \in 1..Len(label) :
               \A i \in 1..Len(DigitChars) : DigitChars[i] # label[k]
    THEN -1
    ELSE IF Len(label) > 1 /\ label[1] = "0" THEN -1
    ELSE LET v == IF Len(label) = 1 THEN digit_value(label[1])
                  ELSE IF Len(label) = 2
                  THEN 10 * digit_value(label[1]) + digit_value(label[2])
                  ELSE 100 * digit_value(label[1])
                          + 10 * digit_value(label[2]) + digit_value(label[3])
         IN  IF v > 255 THEN -1 ELSE v

\* host.parse::<Ipv4Addr>(): the four octets, or <<>> for Err
parse_ipv4(host) ==
    IF Len(host) = 4 /\ \A k \in 1..4 : parse_octet(host[k]) # -1
    THEN [k \in 1..4 |-> parse_octet(host[k])]
    ELSE <<>>

\* a test of the second octet of 172.* that lets every value through
in_172_block_any(o2) == TRUE

\* is_local_host: (16..=31).contains(&ip.octets()[1])
in_172_block(o2) == o2 >= 16 /\ o2 <= 31

\* is_local_host
is_local_host(host) ==
    IF host = << <<"l", "o", "c", "a", "l", "h", "o", "s", "t">> >> THEN TRUE
    ELSE LET ip == parse_ipv4(host)
         IN  IF ip # <<>>
             THEN \/ ip[1] = 127
                  \/ ip[1] = 10
                  \/ (ip[1] = 172 /\ in_172_block(ip[2]))
                  \/ (ip[1] = 192 /\ ip[2] = 168)
             ELSE FALSE

\* the scheme of the session URL (DjClient::connect) and of the direct
\* route URL (start_direct_mc_session)
url_scheme(host) == IF is_local_host(host) THEN "ws" ELSE "wss"

\* labels hosts are made of
LabelInputs ==
    { <<"l", "o", "c", "a", "l", "h", "o", "s", "t">>,
      <<"L", "O", "C", "A", "L", "H", "O", "S", "T">>,
      <<"1", "2", "7">>,
      <<"1", "0">>,
      <<"1", "7", "2">>,
      <<"1", "9", "2">>,
      <<"1", "6", "8">>,
      <<"1", "6">>,
      <<"3", "1">>,
      <<"3", "2">>,
      <<"1", "5">>,
      <<"1">>,
      <<"0">>,
      <<"0", "1", "0">>,
      <<"2", "5", "6">>,
      <<"c", "o", "m">>,
      <<>> }

\* hosts of 1 to 4 labels, and some of 5
HostInputs ==
    UNION {[1..n -> LabelInputs] : n \in 1..4}
      \cup {<<a, b, c, d, d>> : a \in {<<"1", "2", "7">>, <<"1", "0">>},
                                b \in {<<"0">>}, c \in {<<"0">>},
                                d \in {<<"1">>}}

\* the places that build a WebSocket URL
UrlSites == {"session", "direct"}

\* no URL built yet for host h at site s
HostFresh(h, s) ==
    /\ url_host = h
    /\ url_site = s
    /\ url_result = "none"

\* the scheme is chosen for the URL of url_host
ChooseScheme ==
    /\ url_result = "none"
    /\ url_result' = url_scheme(url_host)
    /\ UNCHANGED <<url_host, url_site>>
    /\ UNCHANGED <<ringVars, voiceVars, bridgeVars, connVars, analyzerVars,
                   presetVars, routeVars, ext2Vars>>

NextScheme == ChooseScheme

----------------------------------------------------------------------------
(* The direct renderer route and the descriptor frames of run_bridge      *)
(* (lib.rs).  A bridge task is one call of run_bridge; task 1 is spawned  *)
(* by the first connect command, task 2 by a connect command issued while *)
(* task 1 is still running.  FRAME_SEQ is a static: all tasks share it.   *)
(* Strings are sequences of characters, Option values are sequences of    *)
(* length 0 or 1, a direct session is named by its index in mc_sessions.  *)
(* Instant comparisons are kept as ages: send_age counts ticks since      *)
(* last_mc_send (PACE_TICKS or more: 45 ms have passed), backoff tells    *)
(* that next_mc_connect_attempt lies in the future.                       *)

Tasks == {1, 2}

\* ticks after which last_mc_send.elapsed() >= 45 ms (16 ms per tick)
PACE_TICKS == 3

\* Display of an unsigned integer below 100
fmt_u(n) ==
    IF n < 10 THEN <<DigitChars[n + 1]>>
    ELSE <<DigitChars[(n \div 10) + 1], DigitChars[(n % 10) + 1]>>

\* ConnectionState::default(), as far as the route reads it
ConnectionState_default ==
    [route_mode |-> "", is_active |-> FALSE, mc_host |-> <<>>,
     mc_port |-> <<>>, mc_zone |-> <<>>, mc_entity_count |-> <<>>]

\* a session state on a dual route to a renderer
DualRoute(host, port, zone, count) ==
    [route_mode |-> "dual", is_active |-> TRUE, mc_host |-> <<host>>,
     mc_port |-> <<port>>, mc_zone |-> zone, mc_entity_count |-> count]

\* the session states the server's messages put the client in: dual routes
\* that differ in host, port, zone or entity count, and states that lack one
\* of the conditions of a direct route
RouteStates ==
    LET A == DualRoute(<<"h">>, 1, << <<"2", ":", "z">> >>, <<>>)
    IN  { A,
          [A EXCEPT !.mc_entity_count = <<0>>],
          [A EXCEPT !.mc_zone = <<>>],
          DualRoute(<<"h">>, 2, << <<"z">> >>, <<>>),
          DualRoute(<<"h", ":", "1">>, 2, << <<"z">> >>, <<>>),
          [A EXCEPT !.route_mode = "relay"],
          [A EXCEPT !.is_active = FALSE],
          [A EXCEPT !.mc_host = <<>>],
          [A EXCEPT !.mc_port = <<>>] }

\* resolve_direct_mc_route
resolve_direct_mc_route(cs) ==
    IF cs.route_mode # "dual" \/ ~cs.is_active THEN <<>>
    ELSE IF cs.mc_host = <<>> \/ cs.mc_port = <<>> THEN <<>>
    ELSE << [host |-> cs.mc_host[1],
             port |-> cs.mc_port[1],
             zone |-> IF cs.mc_zone = <<>> THEN <<"m", "a", "i", "n">>
                      ELSE cs.mc_zone[1],
             entity_count |-> Max(IF cs.mc_entity_count = <<>> THEN 16
                                  ELSE cs.mc_entity_count[1], 1)] >>

\* format!("{}:{}:{}", r.host, r.port, r.zone)
target_key(r) == r.host \o <<":">> \o fmt_u(r.port) \o <<":">> \o r.zone

\* format!("{}:{}:{}:{}", route.host, route.port, route.zone,
\*         route.entity_count)
pool_key(r) == target_key(r) \o <<":">> \o fmt_u(r.entity_count)

\* the locals of run_bridge at the top of the 'reconnect loop
bridge_locals ==
    [mc_tx |-> 0, mc_shutdown_tx |-> 0, mc_target_key |-> <<>>,
     mc_pool_key |-> <<>>, backoff |-> FALSE, send_age |-> PACE_TICKS,
     conn_state |-> <<>>, shutdown_requested |-> FALSE]

\* shutdown.send(()) on the shutdown channel of session c (0: none), or
\* the drop of its last sender: the writer closes the socket and ends, and
\* the pool set up over the session is of no account any more
close_session(ss, c) ==
    IF c = 0 THEN ss
    ELSE [ss EXCEPT ![c].open = FALSE, ![c].init = <<>>,
                    ![c].init_route = <<>>]

\* the renderer a route names
target_of(r) == [host |-> r.host, port |-> r.port, zone |-> r.zone]

\* a session started by start_direct_mc_session(route) for task t
new_session(t, r) ==
    [owner |-> t, open |-> TRUE, init |-> <<>>, init_route |-> <<>>,
     target |-> target_of(r)]

\* the messages that go out on a direct session
McMsg(c, type, r, prev) ==
    [conn |-> c, type |-> type, zone |-> r.zone, count |-> r.entity_count,
     prev |-> prev]

\* run_bridge, the branch desired_route.is_none() of the route management,
\* without it
route_none_keep(l, ss) == [l |-> l, ss |-> ss]

\* run_bridge, the branch desired_route.is_none() of the route management
route_none(l, ss) ==
    [l |-> [l EXCEPT !.mc_tx = 0, !.mc_shutdown_tx = 0,
                     !.mc_target_key = <<>>, !.mc_pool_key = <<>>],
     ss |-> close_session(ss, l.mc_shutdown_tx)]

\* run_bridge: does the route management start a direct session?
wants_connect(l, desired, elapsed) ==
    /\ desired # <<>>
    /\ (l.mc_target_key # <<target_key(desired[1])>> \/ l.mc_tx = 0)
    /\ (~l.backoff \/ elapsed)

\* run_bridge, the dual publish of a tick that has an analysis and has sent
\* its frame: init_pool when the pool key differs, then batch_update.
\* fail names the send at which the session's writer is found gone.
dual_publish(l, ss, desired, fail) ==
    IF l.mc_tx = 0 \/ desired = <<>> \/ l.send_age < PACE_TICKS
    THEN [l |-> l, ss |-> ss, sent |-> <<>>]
    ELSE LET r    == desired[1]
             c    == l.mc_tx
             key  == pool_key(r)
             need == l.mc_pool_key # <<key>>
             gone == [l EXCEPT !.mc_tx = 0, !.mc_shutdown_tx = 0,
                               !.backoff = TRUE]
         IN  IF need /\ (~ss[c].open \/ fail = "init_pool")
             THEN [l |-> gone,
                   ss |-> close_session(close_session(ss, c),
                                        l.mc_shutdown_tx),
                   sent |-> <<>>]
             ELSE LET l1  == IF need THEN [l EXCEPT !.mc_pool_key = <<key>>]
                             ELSE l
                      ss1 == IF need
                             THEN [ss EXCEPT
                                     ![c].init = <<[zone |-> r.zone,
                                                    count |-> r.entity_count]>>,
                                     ![c].init_route = <<r>>]
                             ELSE ss
                      s1  == IF need
                             THEN <<McMsg(c, "init_pool", r, ss[c].init_route)>>
                             ELSE <<>>
                  IN  IF ~ss[c].open \/ fail = "batch_update"
                      THEN [l |-> [l1 EXCEPT !.mc_tx = 0,
                                             !.mc_shutdown_tx = 0,
                                             !.mc_pool_key = <<>>,
                                             !.backoff = TRUE],
                            ss |-> close_session(close_session(ss1, c),
                                                 l.mc_shutdown_tx),
                            sent |-> s1]
                      ELSE [l |-> [l1 EXCEPT !.send_age = 0],
                            ss |-> ss1,
                            sent |-> Append(s1, McMsg(c, "batch_update", r,
                                                       <<>>))]

\* the state before the first run_bridge is spawned
\* no tick has just finished
no_tick == [task |-> 0, cs |-> ConnectionState_default, sent |-> <<>>]

RouteFresh(cs) ==
    /\ FRAME_SEQ = 0
    /\ conn_state = cs
    /\ route_pc = [t \in Tasks |-> IF t = 1 THEN "top" ELSE "none"]
    /\ rb = [t \in Tasks |-> bridge_locals]
    /\ shutdown_sent = [t \in Tasks |-> FALSE]
    /\ mc_sessions = <<>>
    /\ vj_frames = [t \in Tasks |-> <<>>]
    /\ last_tick = no_tick

\* run_bridge, top of the 'reconnect loop: FRAME_SEQ.store(0) and fresh
\* locals
RouteLoopTop(t) ==
    /\ route_pc[t] = "top"
    /\ FRAME_SEQ' = 0
    /\ rb' = [rb EXCEPT ![t] = bridge_locals]
    /\ vj_frames' = [vj_frames EXCEPT ![t] = <<>>]
    /\ route_pc' = [route_pc EXCEPT ![t] = "select"]
    /\ UNCHANGED <<conn_state, shutdown_sent, mc_sessions>>
    /\ last_tick' = no_tick
    /\ UNCHANGED nonRouteVars

\* run_bridge, the rest of a tick after the route management: the frame
\* (FRAME_SEQ.fetch_add, tx.send) and the dual publish
RouteTickRest(t, l, ss, cs, has_analysis, vj_ok, fail) ==
    IF ~has_analysis
    THEN /\ rb' = [rb EXCEPT ![t] = l]
         /\ mc_sessions' = ss
         /\ last_tick' = [task |-> t, cs |-> cs, sent |-> <<>>]
         /\ route_pc' = [route_pc EXCEPT ![t] = "select"]
         /\ UNCHANGED <<FRAME_SEQ, vj_frames>>
    ELSE /\ FRAME_SEQ < MaxRouteFrames
         /\ FRAME_SEQ' = FRAME_SEQ + 1
         /\ IF ~vj_ok
            THEN /\ rb' = [rb EXCEPT ![t] = l]
                 /\ mc_sessions' = ss
                 /\ last_tick' = [task |-> t, cs |-> cs, sent |-> <<>>]
                 /\ route_pc' = [route_pc EXCEPT ![t] = "cleanup"]
                 /\ UNCHANGED vj_frames
            ELSE LET p == dual_publish(l, ss, resolve_direct_mc_route(cs),
                                       fail)
                 IN  /\ rb' = [rb EXCEPT ![t] = p.l]
                     /\ mc_sessions' = p.ss
                     /\ last_tick' = [task |-> t, cs |-> cs,
                                      sent |-> p.sent]
                     /\ vj_frames' = [vj_frames EXCEPT
                                        ![t] = Append(@, FRAME_SEQ)]
                     /\ route_pc' = [route_pc EXCEPT ![t] = "select"]

\* the send on a direct session at which the writer is found gone: any or
\* none when the environment has faults, none when it has not
SendFails(faults) ==
    IF faults THEN {"none", "init_pool", "batch_update"} ELSE {"none"}

\* the outcomes of a step that fails only in an environment with faults
Oks(faults) == {TRUE, ~faults}

\* run_bridge, one interval tick in which no direct session is started
RouteTick(t, faults) ==
    /\ route_pc[t] = "select"
    /\ \E tx_some, vj_ok \in Oks(faults), elapsed, has_analysis \in BOOLEAN,
          fail \in SendFails(faults) :
          LET aged    == [rb[t] EXCEPT
                            !.send_age = Min(@ + 1, PACE_TICKS),
                            !.backoff = @ /\ ~elapsed]
              desired == resolve_direct_mc_route(conn_state)
          IN  IF ~tx_some
              THEN /\ route_pc' = [route_pc EXCEPT ![t] = "cleanup"]
                   /\ last_tick' = no_tick
                   /\ UNCHANGED <<FRAME_SEQ, rb, mc_sessions, vj_frames>>
              ELSE /\ ~wants_connect(rb[t], desired, elapsed)
                   /\ LET m == IF desired = <<>>
                               THEN route_none(aged, mc_sessions)
                               ELSE [l |-> aged, ss |-> mc_sessions]
                      IN  RouteTickRest(t, m.l, m.ss, conn_state,
                                        has_analysis, vj_ok, fail)
    /\ UNCHANGED <<conn_state, shutdown_sent>>
    /\ UNCHANGED nonRouteVars

\* run_bridge, an interval tick up to the await of start_direct_mc_session
RouteTickConnect(t) ==
    /\ route_pc[t] = "select"
    /\ Len(mc_sessions) < MaxDirectConns
    /\ \E elapsed \in BOOLEAN :
          LET desired == resolve_direct_mc_route(conn_state)
          IN  /\ wants_connect(rb[t], desired, elapsed)
              /\ rb' = [rb EXCEPT ![t] =
                          [@ EXCEPT !.send_age = Min(@ + 1, PACE_TICKS),
                                    !.backoff = FALSE,
                                    !.conn_state = <<conn_state>>]]
    /\ route_pc' = [route_pc EXCEPT ![t] = "connecting"]
    /\ UNCHANGED <<FRAME_SEQ, conn_state, shutdown_sent, mc_sessions,
                   vj_frames>>
    /\ last_tick' = no_tick
    /\ UNCHANGED nonRouteVars

\* start_direct_mc_session returns Ok: the tick goes on with the new session
McConnectOk(t, faults) ==
    /\ route_pc[t] = "connecting"
    /\ \E has_analysis \in BOOLEAN, vj_ok \in Oks(faults),
          fail \in SendFails(faults) :
          LET cs      == rb[t].conn_state[1]
              desired == resolve_direct_mc_route(cs)
              c       == Len(mc_sessions) + 1
              l       == [rb[t] EXCEPT
                            !.mc_tx = c, !.mc_shutdown_tx = c,
                            !.mc_target_key = <<target_key(desired[1])>>,
                            !.mc_pool_key = <<>>,
                            !.conn_state = <<>>]
              ss      == Append(close_session(mc_sessions,
                                              rb[t].mc_shutdown_tx),
                                new_session(t, desired[1]))
          IN  RouteTickRest(t, l, ss, cs, has_analysis, vj_ok, fail)
    /\ UNCHANGED <<conn_state, shutdown_sent>>
    /\ UNCHANGED nonRouteVars

\* start_direct_mc_session returns Err: next attempt in 2 s, the tick goes
\* on with what it had
McConnectErr(t) ==
    /\ route_pc[t] = "connecting"
    /\ \E has_analysis, vj_ok \in BOOLEAN, fail \in SendFails(TRUE) :
          LET cs == rb[t].conn_state[1]
              l  == [rb[t] EXCEPT !.backoff = TRUE, !.conn_state = <<>>]
          IN  RouteTickRest(t, l, mc_sessions, cs, has_analysis, vj_ok, fail)
    /\ UNCHANGED <<conn_state, shutdown_sent>>
    /\ UNCHANGED nonRouteVars

\* run_bridge, the select takes shutdown_rx.recv()
RouteRecvShutdown(t) ==
    /\ route_pc[t] = "select"
    /\ shutdown_sent[t]
    /\ shutdown_sent' = [shutdown_sent EXCEPT ![t] = FALSE]
    /\ rb' = [rb EXCEPT ![t].shutdown_requested = TRUE]
    /\ route_pc' = [route_pc EXCEPT ![t] = "cleanup"]
    /\ UNCHANGED <<FRAME_SEQ, conn_state, mc_sessions, vj_frames>>
    /\ last_tick' = no_tick
    /\ UNCHANGED nonRouteVars

\* run_bridge after the inner loop: the direct session is shut down; the
\* task stops on a requested shutdown and otherwise goes through the
\* backoff and the reconnect to the top of the 'reconnect loop
RouteCleanup(t) ==
    /\ route_pc[t] = "cleanup"
    /\ mc_sessions' = close_session(mc_sessions, rb[t].mc_shutdown_tx)
    /\ rb' = [rb EXCEPT ![t].mc_shutdown_tx = 0, ![t].mc_tx = 0]
    /\ route_pc' = [route_pc EXCEPT
                      ![t] = IF rb[t].shutdown_requested THEN "stopped"
                             ELSE "top"]
    /\ UNCHANGED <<FRAME_SEQ, conn_state, shutdown_sent, vj_frames>>
    /\ last_tick' = no_tick
    /\ UNCHANGED nonRouteVars

\* a server message changes the session state (handle_message:
\* StreamRoute, status updates)
StreamRoute ==
    /\ \E cs \in RouteStates : conn_state' = cs
    /\ conn_state' # conn_state
    /\ UNCHANGED <<FRAME_SEQ, route_pc, rb, shutdown_sent, mc_sessions,
                   vj_frames>>
    /\ last_tick' = no_tick
    /\ UNCHANGED nonRouteVars

\* disconnect: the shutdown signal for the running bridge task
RouteCmdDisconnect ==
    /\ route_pc[1] \notin {"none", "stopped"}
    /\ ~shutdown_sent[1]
    /\ ~rb[1].shutdown_requested
    /\ shutdown_sent' = [shutdown_sent EXCEPT ![1] = TRUE]
    /\ UNCHANGED <<FRAME_SEQ, conn_state, route_pc, rb, mc_sessions,
                   vj_frames>>
    /\ last_tick' = no_tick
    /\ UNCHANGED nonRouteVars

\* connect_with_code while a bridge task runs: the shutdown signal for the
\* old task, then the 150 ms sleep and the new DjClient::connect
CmdConnectShutdown ==
    /\ route_pc[2] = "none"
    /\ route_pc[1] \notin {"none", "stopped"}
    /\ shutdown_sent' = [shutdown_sent EXCEPT ![1] = TRUE]
    /\ route_pc' = [route_pc EXCEPT ![2] = "spawning"]
    /\ UNCHANGED <<FRAME_SEQ, conn_state, rb, mc_sessions, vj_frames>>
    /\ last_tick' = no_tick
    /\ UNCHANGED nonRouteVars

\* connect_with_code: the new client is connected and stored, run_bridge is
\* spawned
CmdConnectSpawn ==
    /\ route_pc[2] = "spawning"
    \* a task that waits in its select has taken the signal by now
    /\ ~(route_pc[1] = "select" /\ shutdown_sent[1])
    /\ route_pc' = [route_pc EXCEPT ![2] = "top"]
    /\ UNCHANGED <<FRAME_SEQ, conn_state, rb, shutdown_sent, mc_sessions,
                   vj_frames>>
    /\ last_tick' = no_tick
    /\ UNCHANGED nonRouteVars

\* the route of one bridge task under a changing session state, in an
\* environment with faults
NextRoute ==
    \/ \E t \in Tasks : RouteLoopTop(t)
    \/ \E t \in Tasks : RouteTick(t, TRUE)
    \/ \E t \in Tasks : RouteTickConnect(t)
    \/ \E t \in Tasks : McConnectOk(t, TRUE)
    \/ \E t \in Tasks : McConnectErr(t)
    \/ \E t \in Tasks : RouteRecvShutdown(t)
    \/ \E t \in Tasks : RouteCleanup(t)
    \/ StreamRoute
    \/ RouteCmdDisconnect

\* two bridge tasks under a fixed session state, in an environment without
\* faults
NextReconnect ==
    \/ \E t \in Tasks : RouteLoopTop(t)
    \/ \E t \in Tasks : RouteTick(t, FALSE)
    \/ \E t \in Tasks : RouteTickConnect(t)
    \/ \E t \in Tasks : McConnectOk(t, FALSE)
    \/ \E t \in Tasks : RouteRecvShutdown(t)
    \/ \E t \in Tasks : RouteCleanup(t)
    \/ CmdConnectShutdown
    \/ CmdConnectSpawn

----------------------------------------------------------------------------
(* BassLane: audio/fft.rs lines 84-240.                                    *)

\* sample rates of the devices
BassRates == {22050, 44100, 48000}

\* lengths of the buffers handed to process
BassBufLens == {0, 1, 1024, 3307, 6614, 7200}

\* BassLane::new: (sample_rate * 0.15) as u32
cooldown_of(sample_rate) == (sample_rate * 15) \div 100

\* a cooldown test that lets every onset through
cooldown_ok_always(since, cooldown) == TRUE

\* process: samples_since_onset >= cooldown_samples
cooldown_ok(since, cooldown) == since >= cooldown

\* BassLane::new
BassFresh(sample_rate) ==
    /\ bl_sample_rate = sample_rate
    /\ cooldown_samples = cooldown_of(sample_rate)
    /\ samples_since_onset = cooldown_of(sample_rate)
    /\ bl_kick = FALSE
    /\ bl_at_kick = -1
    /\ bl_true_since = -1
    /\ bl_gap = -1

\* BassLane::process on a buffer of n samples; slope_over: the envelope
\* slope of the buffer is above onset_threshold * running_peak.  The u32
\* counter stays at or below MaxBassSamples here, far from 2^32.
BassProcess ==
    \E n \in BassBufLens, slope_over \in BOOLEAN :
        /\ samples_since_onset + n <= MaxBassSamples
        /\ IF n = 0
           THEN /\ bl_kick' = FALSE
                /\ bl_at_kick' = -1
                /\ bl_gap' = -1
                /\ UNCHANGED <<samples_since_onset, bl_true_since>>
           ELSE LET since == samples_since_onset + n
                    fire  == slope_over /\ cooldown_ok(since, cooldown_samples)
                    true1 == IF bl_true_since = -1 THEN -1
                             ELSE bl_true_since + n
                IN  /\ bl_kick' = fire
                    /\ samples_since_onset' = IF fire THEN 0 ELSE since
                    /\ bl_at_kick' = IF fire THEN since ELSE -1
                    /\ bl_gap' = IF fire THEN true1 ELSE -1
                    /\ bl_true_since' = IF fire THEN 0 ELSE true1
        /\ UNCHANGED <<bl_sample_rate, cooldown_samples>>
        /\ UNCHANGED nonBassVars

NextBass == BassProcess

----------------------------------------------------------------------------
(* The histories of FftAnalyzer (audio/fft.rs lines 266-274, 328-335,      *)
(* 453-466, 508-526, 551-584): their lengths.  analyze's frame counter,    *)
(* which nothing reads, and the values in the histories are left out.      *)

\* beat_history.len() > 60
BEAT_HISTORY_CAP == 60

\* flux_history.len() > 120
FLUX_HISTORY_CAP == 120

\* last_beat_times.len() > 20
BEAT_TIMES_CAP == 20

\* vec![0.0; 201]
HISTOGRAM_BINS == 201

\* a push_back that is followed by no pop_front
push_uncapped(len, cap) == len + 1

\* VecDeque::push_back, then pop_front when len() > cap: the length after
push_capped(len, cap) == IF len + 1 > cap THEN (len + 1) - 1 ELSE len + 1

\* the bins _update_tempo_histogram adds a weight to for a tempo candidate:
\* base_idx - 3 ..= base_idx + 3 inside 0..tempo_histogram.len()
histogram_bins_written(candidate, len) ==
    {idx \in (candidate - HISTOGRAM_BPM_MIN - 3)..(candidate - HISTOGRAM_BPM_MIN + 3) :
        idx >= 0 /\ idx < len}

\* FftAnalyzer::new: the histories are empty, the histogram has its bins
FftHistory_new ==
    [beat_history |-> 0, flux_history |-> 0, last_beat_times |-> 0,
     ioi_history |-> 0, tempo_histogram |-> HISTOGRAM_BINS,
     beat_cooldown |-> 0, last_onset_time |-> FALSE]

HistoryFresh == hist = FftHistory_new

\* _update_bpm_from_onset: an inter-onset interval that is in range and no
\* outlier is pushed to ioi_history; _update_tempo_histogram decays and adds
\* in place, at bins inside the histogram
update_history_from_onset(h, ioi_kept, candidate) ==
    IF h.last_onset_time /\ ioi_kept
    THEN [h EXCEPT !.ioi_history = push_capped(@, IOI_HISTORY_CAP),
                   !.tempo_histogram =
                       IF histogram_bins_written(candidate, @) \subseteq 0..(@ - 1)
                       THEN @ ELSE -1]
    ELSE h

\* detect_beat: what it does to the histories
detect_beat_history(h, is_onset, can_fire, ioi_kept, candidate) ==
    LET pushed_h == [h EXCEPT
                       !.beat_history = push_capped(@, BEAT_HISTORY_CAP),
                       !.flux_history = push_capped(@, FLUX_HISTORY_CAP),
                       !.beat_cooldown = IF @ > 0 THEN @ - 1 ELSE @]
    IN  IF pushed_h.beat_cooldown = 0 /\ is_onset
              /\ (~pushed_h.last_onset_time \/ can_fire)
        THEN [update_history_from_onset(pushed_h, ioi_kept, candidate) EXCEPT
                 !.last_onset_time = TRUE,
                 !.beat_cooldown = BEAT_COOLDOWN_FRAMES,
                 !.last_beat_times = push_capped(@, BEAT_TIMES_CAP)]
        ELSE pushed_h

\* FftAnalyzer::analyze on a frame of fft_size samples or more (a shorter
\* frame returns before detect_beat): the bass passes the onset tests or
\* not, 0.15 s have passed since the last onset or not, the interval to it
\* is kept or not, and the tempo candidate is at an end or in the middle of
\* the histogram
AnalyzeHistory ==
    \E is_onset, can_fire, ioi_kept \in BOOLEAN,
       candidate \in {HISTOGRAM_BPM_MIN, 120, HISTOGRAM_BPM_MAX} :
        /\ (~is_onset => ~can_fire /\ ~ioi_kept /\ candidate = 120)
        /\ hist' = detect_beat_history(hist, is_onset, can_fire, ioi_kept,
                                       candidate)
        /\ UNCHANGED nonLenVars

NextHistory == AnalyzeHistory

----------------------------------------------------------------------------
(* FftAnalyzer::analyze in numbers (audio/fft.rs lines 360-526, 686-705). *)
(* Levels are in thousandths, times in units of 0.05 s.  A frame is given  *)
(* by the mean magnitude of its bins, the same in every band; an all-zero  *)
(* frame has the magnitude 0 in every bin.                                 *)

\* the analyze calls of a run
MaxSilentFrames == 124

\* band_max: [0.001; 5], and its floor
BAND_MAX_FLOOR == 1

\* (avg * beat_threshold).max(0.12)
BASS_FLOOR == 120

\* (flux_mean + flux_std * beat_threshold).max(0.015)
FLUX_FLOOR == 15

\* the sum of a sequence of numbers
RECURSIVE SumRange(_, _, _)
SumRange(q, lo, hi) ==
    IF lo > hi THEN 0
    ELSE IF lo = hi THEN q[lo]
    ELSE SumRange(q, lo, (lo + hi) \div 2)
             + SumRange(q, (lo + hi) \div 2 + 1, hi)

SumSeq(q) == SumRange(q, 1, Len(q))

\* f32::sqrt, rounded down
isqrt(x) == CHOOSE r \in 0..1000 : r * r <= x /\ (r + 1) * (r + 1) > x

\* VecDeque::push_back, then pop_front when len() > cap
push_back_capped(q, v, cap) ==
    IF Len(q) + 1 > cap THEN Tail(Append(q, v)) ELSE Append(q, v)

\* FftAnalyzer::new(AudioConfig::default())
FftNumeric_new ==
    [attack |-> FftAnalyzer_new.attack, release |-> FftAnalyzer_new.release,
     beat_threshold |-> FftAnalyzer_new.beat_threshold,
     bass_weight |-> FftAnalyzer_new.bass_weight,
     band_sensitivity |-> FftAnalyzer_new.band_sensitivity,
     smoothed_bands |-> <<0, 0, 0, 0, 0>>,
     band_max |-> [i \in 1..5 |-> BAND_MAX_FLOOR],
     beat_history |-> <<>>, flux_history |-> <<>>, prev_bass |-> 0,
     beat_cooldown |-> 0, last_onset_time |-> <<>>,
     last_output_beat_time |-> 0,
     estimated_bpm |-> FftAnalyzer_new.estimated_bpm,
     tempo_confidence |-> FftAnalyzer_new.tempo_confidence,
     frame |-> 0, now |-> 0]

\* AnalysisResult::default()
numeric_result_default ==
    [bands |-> <<0, 0, 0, 0, 0>>, peak |-> 0, is_beat |-> FALSE,
     beat_intensity |-> 0, bpm |-> 0, tempo_confidence |-> 0,
     beat_phase |-> 0]

NumericFresh ==
    /\ na = FftNumeric_new
    /\ na_result = numeric_result_default

\* analyze, per-band AGC: the running max after the band
agc_max(band, max) ==
    IF band > max THEN band
    ELSE Max((max * 997) \div 1000, BAND_MAX_FLOOR)

\* analyze, per-band AGC and sensitivity: the normalized band
agc_band(band, max, sensitivity) ==
    Min((Min((band * 1000) \div agc_max(band, max), 1000) * sensitivity)
            \div 100, 1000)

\* analyze, envelope following
envelope_follow(current, raw, attack, release) ==
    IF raw > current THEN current + ((raw - current) * attack) \div 100
    ELSE current + ((raw - current) * release) \div 100

\* a beat phase that does not test last_output_beat_time
estimate_beat_phase_untested(a) ==
    ((a.now * a.estimated_bpm * 1000) \div BEAT_PERIOD_SCALE) % 1000

\* estimate_beat_phase
estimate_beat_phase(a) ==
    IF a.last_output_beat_time <= 0 \/ a.estimated_bpm <= 0 THEN 0
    ELSE ((Max(a.now - a.last_output_beat_time, 0) * a.estimated_bpm * 1000)
              \div BEAT_PERIOD_SCALE) % 1000

\* detect_beat: the analyzer after it and (is_beat, beat_intensity).  What
\* an onset does to the tempo estimate is that of the histogram (peak there
\* or not, refined_bpm, new_conf).
detect_beat_numeric(a, bass, tempo) ==
    LET bass_flux == Max(bass - a.prev_bass, 0)
        h   == [a EXCEPT
                  !.beat_history = push_back_capped(@, bass, BEAT_HISTORY_CAP),
                  !.prev_bass = bass,
                  !.flux_history = push_back_capped(@, bass_flux,
                                                    FLUX_HISTORY_CAP),
                  !.beat_cooldown = IF @ > 0 THEN @ - 1 ELSE @]
        avg == IF h.beat_history = <<>> THEN 0
               ELSE SumSeq(h.beat_history) \div Len(h.beat_history)
        bass_threshold == Max((avg * h.beat_threshold) \div 100, BASS_FLOOR)
        flux_mean == IF h.flux_history = <<>> THEN 0
                     ELSE SumSeq(h.flux_history) \div Len(h.flux_history)
        flux_std  == IF h.flux_history = <<>> THEN 0
                     ELSE isqrt(SumSeq([i \in 1..Len(h.flux_history) |->
                                          (h.flux_history[i] - flux_mean)
                                          * (h.flux_history[i] - flux_mean)])
                                \div Len(h.flux_history))
        flux_threshold ==
            Max(flux_mean + (flux_std * h.beat_threshold) \div 100, FLUX_FLOOR)
        is_onset == /\ bass_flux >= flux_threshold
                    /\ bass > bass_threshold
                    /\ ~(bass * 10 < avg * 9)
        can_fire == \/ h.last_onset_time = <<>>
                    \/ h.now - h.last_onset_time[1] >= MIN_ONSET_INTERVAL
        since_last == h.now - h.last_output_beat_time
        x     == since_last * Max(h.estimated_bpm, BPM_MIN)
        phase == x % BEAT_PERIOD_SCALE
    IN  IF h.beat_cooldown = 0 /\ is_onset /\ can_fire
        THEN LET ioi == IF h.last_onset_time = <<>> THEN -1
                        ELSE Min(h.now - h.last_onset_time[1], OnsetAgeCap)
                 t   == update_bpm_from_onset(
                            [onset_age |-> ioi, ioi_len |-> 4,
                             estimated_bpm |-> h.estimated_bpm,
                             tempo_confidence |-> h.tempo_confidence],
                            tempo.peak_ok, tempo.refined, tempo.new_conf)
                 flux_score == Min((bass_flux * 1000)
                                       \div Max(flux_threshold, 1), 1500)
                 bass_score == Max(0, Min(((bass - avg) * 1000)
                                              \div Max(avg, 10), 1500))
                 flux_w     == 1000 - h.bass_weight * 5
             IN  [a |-> [h EXCEPT !.estimated_bpm = t.estimated_bpm,
                                  !.tempo_confidence = t.tempo_confidence,
                                  !.last_onset_time = <<h.now>>,
                                  !.last_output_beat_time = h.now,
                                  !.beat_cooldown = BEAT_COOLDOWN_FRAMES],
                  is_beat |-> TRUE,
                  beat_intensity |->
                      Min((flux_score * flux_w + bass_score * (1000 - flux_w))
                              \div 1000, 1000)]
        ELSE IF /\ h.tempo_confidence > 55
                /\ h.last_output_beat_time > 0
                /\ x * 10 > 8 * BEAT_PERIOD_SCALE
                /\ (phase * 10 < BEAT_PERIOD_SCALE
                        \/ phase * 10 > 9 * BEAT_PERIOD_SCALE)
                /\ bass * 100 > avg * 85
                /\ bass_flux * 10 > flux_mean * 6
        THEN [a |-> [h EXCEPT !.last_output_beat_time = h.now],
              is_beat |-> TRUE, beat_intensity |-> 550]
        ELSE [a |-> h, is_beat |-> FALSE, beat_intensity |-> 0]

\* FftAnalyzer::analyze on a frame of fft_size samples whose bins have the
\* magnitude level, dt time units after the previous call
analyze_numeric(a, level, dt, tempo) ==
    LET timed  == [a EXCEPT !.frame = @ + 1, !.now = @ + dt]
        raw    == [i \in 1..5 |->
                     agc_band(level, timed.band_max[i],
                              timed.band_sensitivity[i])]
        banded == [timed EXCEPT
                     !.band_max = [i \in 1..5 |-> agc_max(level, @[i])],
                     !.smoothed_bands =
                         [i \in 1..5 |->
                            envelope_follow(@[i], raw[i], timed.attack,
                                            timed.release)]]
        peak   == Max(0, Max(Max(Max(banded.smoothed_bands[1],
                                     banded.smoothed_bands[2]),
                                 Max(banded.smoothed_bands[3],
                                     banded.smoothed_bands[4])),
                             banded.smoothed_bands[5]))
        r      == detect_beat_numeric(banded, banded.smoothed_bands[1], tempo)
    IN  [a |-> r.a,
         result |-> [bands |-> r.a.smoothed_bands, peak |-> peak,
                     is_beat |-> r.is_beat,
                     beat_intensity |-> r.beat_intensity,
                     bpm |-> r.a.estimated_bpm,
                     tempo_confidence |-> r.a.tempo_confidence,
                     beat_phase |-> estimate_beat_phase(r.a)]]

\* analyze on an all-zero frame of fft_size samples, at once or one time
\* unit after the call before
AnalyzeSilence ==
    \E dt \in FrameGaps :
        /\ na.frame < MaxSilentFrames
        /\ LET r == analyze_numeric(na, 0, dt,
                                    [peak_ok |-> FALSE, refined |-> 120,
                                     new_conf |-> 0])
           IN  /\ na' = r.a
               /\ na_result' = r.result
        /\ UNCHANGED nonNumVars

NextSilence == AnalyzeSilence

----------------------------------------------------------------------------
(* PatternEngine (patterns.rs) and the entities of a batch_update          *)
(* (lib.rs lines 556-565, 660-702).                                        *)

\* the pattern scripts a server sends: one that loads, one whose chunk fails
\* before it defines calculate, one whose chunk fails after it has
PatternNames == {"good", "broken", "half"}

\* what executing the chunk of a script leaves in a fresh Lua state
lua_after_load(name) ==
    CASE name = "good"   -> [calculate |-> TRUE,  ok |-> TRUE]
      [] name = "broken" -> [calculate |-> FALSE, ok |-> FALSE]
      [] name = "half"   -> [calculate |-> TRUE,  ok |-> FALSE]

\* PatternEngine::new
PatternEngine_new ==
    [pattern_loaded |-> FALSE, current_pattern |-> "", loaded_patterns |-> {},
     lib_source |-> "none", calculate |-> FALSE, lua_chunk |-> ""]

\* what run_lua_pattern can return: an error, or Ok with n entities
EvalOutcomes == {[ok |-> FALSE, n |-> 0]} \cup {[ok |-> TRUE, n |-> n] : n \in 0..2}

\* run_lua_pattern: Err when the Lua state has no calculate function
run_lua_pattern(engine, outcome) ==
    IF engine.calculate THEN outcome ELSE [ok |-> FALSE, n |-> 0]

\* calculate_entities without the pattern_loaded test
calculate_entities_unchecked(engine, outcome) ==
    LET r == run_lua_pattern(engine, outcome)
    IN  IF r.ok THEN r.n ELSE 0

\* PatternEngine::calculate_entities: the number of entities returned
calculate_entities(engine, outcome) ==
    IF ~engine.pattern_loaded THEN 0
    ELSE LET r == run_lua_pattern(engine, outcome)
         IN  IF r.ok THEN r.n ELSE 0

\* how the evaluation went, for the record of a batch_update
eval_of(engine, outcome) ==
    IF ~engine.pattern_loaded THEN "not_loaded"
    ELSE IF run_lua_pattern(engine, outcome).ok THEN "ok" ELSE "err"

no_batch == [eval |-> "none", source |-> "none", n |-> 0]

no_change == [result |-> "none", before |-> <<>>]

PatternFresh ==
    /\ pattern_engine = <<>>
    /\ batch = no_batch
    /\ pattern_change = no_change

\* run_bridge: pending pattern scripts (get_or_insert_with, load_lib,
\* load_pattern for every other script)
PatternScripts ==
    \E names \in SUBSET PatternNames, lib \in {"none", "ok", "bad"} :
        /\ names # {} \/ lib # "none"
        /\ LET engine == IF pattern_engine = <<>> THEN PatternEngine_new
                         ELSE pattern_engine[1]
           IN  pattern_engine' =
                 << [engine EXCEPT
                       !.loaded_patterns = @ \cup names,
                       !.lib_source = IF lib = "none" THEN @ ELSE lib] >>
        /\ batch' = no_batch
        /\ pattern_change' = no_change
        /\ UNCHANGED nonPatternVars

\* PatternEngine::set_pattern: the engine after the call.  lua_chunk names
\* the script whose chunk the Lua state has run ("" in a state that ran
\* none, or only a lib that failed)
set_pattern(engine, name) ==
    IF name \notin engine.loaded_patterns THEN engine
    ELSE IF engine.lib_source = "bad"
    THEN [engine EXCEPT !.calculate = FALSE, !.lua_chunk = ""]
    ELSE LET lua == lua_after_load(name)
         IN  IF lua.ok
             THEN [engine EXCEPT !.calculate = lua.calculate,
                                 !.lua_chunk = name,
                                 !.current_pattern = name,
                                 !.pattern_loaded = TRUE]
             ELSE [engine EXCEPT !.calculate = lua.calculate,
                                 !.lua_chunk = name]

\* PatternEngine::set_pattern: whether the call returns Err (the three ?)
set_pattern_err(engine, name) ==
    \/ name \notin engine.loaded_patterns
    \/ engine.lib_source = "bad"
    \/ ~lua_after_load(name).ok

\* run_bridge: pending pattern change
PatternChange ==
    \E name \in PatternNames \cup {"absent"} :
        /\ pattern_engine' = IF pattern_engine = <<>> THEN <<>>
                             ELSE << set_pattern(pattern_engine[1], name) >>
        /\ batch' = no_batch
        /\ pattern_change' =
             IF pattern_engine = <<>> THEN no_change
             ELSE [result |-> IF set_pattern_err(pattern_engine[1], name)
                              THEN "err" ELSE "ok",
                   before |-> pattern_engine]
        /\ UNCHANGED nonPatternVars

\* run_bridge, dual publish: the entities of one batch_update
PatternBatch ==
    \E outcome \in EvalOutcomes :
        /\ IF pattern_engine = <<>>
           THEN /\ outcome = [ok |-> FALSE, n |-> 0]
                /\ batch' = [eval |-> "no_engine", source |-> "fallback",
                             n |-> 0]
           ELSE LET engine == pattern_engine[1]
                    n == calculate_entities(engine, outcome)
                IN  batch' = [eval |-> eval_of(engine, outcome),
                              source |-> IF n = 0 THEN "fallback" ELSE "lua",
                              n |-> n]
        /\ UNCHANGED <<pattern_engine, pattern_change>>
        /\ UNCHANGED nonPatternVars

NextPattern == PatternScripts \/ PatternChange \/ PatternBatch

----------------------------------------------------------------------------
(* ConnectionState and its inbound messages (protocol/client.rs).          *)

\* the route_mode strings a server sends
RouteModeStrings == {"relay", "dual", "mesh"}

\* ConnectionState::default (the fields the two messages write)
ConnectionState_fresh ==
    [authenticated |-> FALSE, is_active |-> FALSE, dj_id |-> <<>>,
     route_mode |-> "", mc_host |-> <<>>, mc_port |-> <<>>, mc_zone |-> <<>>,
     mc_entity_count |-> <<>>]

\* an auth_success handler that sets route_mode from the message alone
auth_route_mode_reset(old, sent) == IF sent = <<>> THEN "" ELSE sent[1]

\* AuthSuccess: if let Some(route_mode) = auth.route_mode
auth_route_mode(old, sent) == IF sent = <<>> THEN old ELSE sent[1]

StateFresh ==
    /\ client_state = ConnectionState_fresh
    /\ last_mode = <<>>
    /\ last_msg = "none"
    /\ last_msg_mode = <<>>

\* inbound auth_success (handshake loop and reader task alike)
AuthSuccess ==
    \E is_active \in BOOLEAN,
       route_mode \in {<<>>} \cup {<<r>> : r \in RouteModeStrings},
       pattern_config \in {<<>>, << <<>> >>, << <<8>> >>} :
        /\ client_state' =
             [client_state EXCEPT
                !.authenticated = TRUE,
                !.is_active = is_active,
                !.dj_id = <<"dj">>,
                !.route_mode = auth_route_mode(@, route_mode),
                !.mc_entity_count = IF pattern_config = <<>> THEN @
                                    ELSE pattern_config[1]]
        /\ last_mode' = IF route_mode = <<>> THEN last_mode ELSE route_mode
        /\ last_msg' = "auth_success"
        /\ last_msg_mode' = route_mode
        /\ UNCHANGED nonStateVars

\* inbound stream_route
StreamRouteMsg ==
    \E route_mode \in RouteModeStrings,
       is_active \in {<<>>, <<TRUE>>, <<FALSE>>},
       endpoint \in {<<>>, <<"h">>},
       entity_count \in {<<>>, <<16>>},
       pattern_config \in {<<>>, << <<8>> >>} :
        /\ client_state' =
             [client_state EXCEPT
                !.route_mode = route_mode,
                !.is_active = IF is_active = <<>> THEN @ ELSE is_active[1],
                !.mc_host = endpoint,
                !.mc_port = IF endpoint = <<>> THEN <<>> ELSE <<25565>>,
                !.mc_zone = IF endpoint = <<>> THEN <<>> ELSE <<"main">>,
                !.mc_entity_count =
                    IF entity_count # <<>> THEN entity_count
                    ELSE IF pattern_config = <<>> THEN <<>>
                    ELSE pattern_config[1]]
        /\ last_mode' = <<route_mode>>
        /\ last_msg' = "stream_route"
        /\ last_msg_mode' = <<route_mode>>
        /\ UNCHANGED nonStateVars

NextState == AuthSuccess \/ StreamRouteMsg

----------------------------------------------------------------------------
(* AudioCaptureHandle, run_audio_thread and the stream callback            *)
(* (audio/capture.rs lines 106-167, 212-548; lib.rs lines 894-933).        *)

\* fft_size() of the analyzer, in samples of the model's AudioBuffer
WorkerFftSize == 2

\* the source_id values of start_capture
SourceIds == {"default", "system_audio", "output:", "input:"}

\* run_audio_thread: the errors of the device resolution for a source
resolve_errors(id) ==
    IF id \in {"output:", "input:"} THEN {"SourceNotFound", "ConfigError"}
    ELSE {"NoOutputDevice"}

\* the later errors of the set-up (default config, build_stream, play)
SetupErrors == {"StreamError"}

\* NaN among the values of beat_intensity (tenths otherwise)
NaN == -1

\* f32::max
f32_max(a, b) == IF a = NaN THEN b ELSE IF b = NaN THEN a ELSE Max(a, b)

\* the AnalysisResult::default() the slot starts with (the fields of the
\* merge)
latest_result_default ==
    [is_beat |-> FALSE, beat_intensity |-> 0, instant_kick |-> FALSE,
     fft_is_beat |-> FALSE]

\* a merge that leaves the FFT's beat as it is
merge_bass_lane_none(result, i_kick) ==
    [is_beat |-> result.is_beat, beat_intensity |-> result.beat_intensity,
     instant_kick |-> i_kick, fft_is_beat |-> result.is_beat]

\* run_audio_thread: the bass lane's kick merged into the result of analyze
merge_bass_lane(result, i_kick) ==
    [is_beat |-> IF i_kick /\ ~result.is_beat THEN TRUE ELSE result.is_beat,
     beat_intensity |-> IF i_kick /\ ~result.is_beat
                        THEN f32_max(result.beat_intensity, 5)
                        ELSE result.beat_intensity,
     instant_kick |-> i_kick,
     fft_is_beat |-> result.is_beat]

\* a mutex that lets every thread in
can_lock_always(lock) == TRUE

\* Mutex::lock returns when no thread holds the mutex
can_lock(lock) == lock = "free"

\* a worker that keeps the AudioBuffer mutex after the copy
hold_after_copy(lock) == lock

\* run_audio_thread: the guards are dropped at the end of the copy block
release_after_copy(lock) == "free"

\* a send that queues nothing
stop_send_none(queue, worker) == queue

\* Sender::send(Stop): queued while the receiver lives
stop_send(queue, worker) == IF worker = "ended" THEN queue ELSE queue + 1

\* the worker is in its loop (the stream is playing)
InLoop == w_pc \in {"top", "lock_buf", "lock_ana", "copy", "process", "analyze"}

CaptureFresh ==
    /\ cap_pc = "idle"
    /\ start_result = "none"
    /\ app_audio_capture = FALSE
    /\ source_id = "default"
    /\ thread_handle = FALSE
    /\ command_rx = 0
    /\ w_pc = "none"
    /\ w_error = "none"
    /\ buffer_lock = "free"
    /\ analyzer_lock = "free"
    /\ cb_pc = "idle"
    /\ cb_left = 0
    /\ latest_result = latest_result_default

\* the presets a user picks
MaxTunePreset == 2

TunePresets == 1..MaxTunePreset

\* the tunable parameters of an analyzer, or of a preset
tunables(a) ==
    [attack |-> a.attack, release |-> a.release,
     beat_threshold |-> a.beat_threshold, bass_weight |-> a.bass_weight,
     band_sensitivity |-> a.band_sensitivity]

\* new_with_voice: FftAnalyzer::new(AudioConfig::default()); AppState::new:
\* active_preset = "auto"
TuneFresh ==
    /\ active_preset = 1
    /\ ana_tunables = tunables(FftAnalyzer_new)

\* start_capture up to the return of AudioCaptureHandle::new_with_voice:
\* the thread is spawned, or the spawn fails with ThreadError
StartCaptureSpawn ==
    \E id \in SourceIds, spawned \in BOOLEAN :
        /\ cap_pc = "idle"
        /\ source_id' = id
        /\ IF spawned
           THEN /\ cap_pc' = "starting"
                /\ thread_handle' = TRUE
                /\ w_pc' = "resolve"
                /\ UNCHANGED start_result
           ELSE /\ cap_pc' = "failed"
                /\ start_result' = "err"
                /\ UNCHANGED <<thread_handle, w_pc>>
        /\ UNCHANGED <<app_audio_capture, command_rx, w_error, buffer_lock,
                       analyzer_lock, cb_pc, cb_left, latest_result>>
        /\ UNCHANGED <<ringVars, tuneVars, nonCapVars>>

\* set_preset while no capture is installed: only active_preset is set
SetPresetIdle ==
    \E i \in TunePresets :
        /\ ~app_audio_capture
        /\ cap_pc \in {"idle", "starting"}
        /\ active_preset' = i
        /\ UNCHANGED ana_tunables
        /\ UNCHANGED capVars
        /\ UNCHANGED <<ringVars, nonCapVars>>

\* start_capture after new_with_voice returned Ok: the active preset is
\* applied under the analyzer mutex and the handle is installed
StartCaptureInstall ==
    /\ cap_pc = "starting"
    /\ can_lock(analyzer_lock)
    /\ cap_pc' = "installed"
    /\ app_audio_capture' = TRUE
    /\ start_result' = "ok"
    /\ UNCHANGED <<source_id, thread_handle, command_rx, w_pc, w_error,
                   buffer_lock, analyzer_lock, cb_pc, cb_left, latest_result>>
    /\ ana_tunables' = tunables(get_presets[active_preset])
    /\ UNCHANGED active_preset
    /\ UNCHANGED <<ringVars, nonCapVars>>

\* set_preset (or the bridge's preset_sync) of preset i while a capture is
\* installed: the analyzer mutex is taken and apply_preset runs;
\* active_preset is set under the AppState mutex
set_preset_installed(i) ==
    /\ app_audio_capture
    /\ can_lock(analyzer_lock)
    /\ analyzer_lock' = "command"
    /\ UNCHANGED <<cap_pc, start_result, app_audio_capture, source_id,
                   thread_handle, command_rx, w_pc, w_error, buffer_lock,
                   cb_pc, cb_left, latest_result>>
    /\ ana_tunables' = tunables(get_presets[i])
    /\ active_preset' = i
    /\ UNCHANGED <<ringVars, nonCapVars>>

\* set_preset with the name of the preset that is active already
SetPresetLock == set_preset_installed(active_preset)

\* set_preset with the name of another preset
SetPresetLockOther ==
    \E i \in TunePresets \ {active_preset} : set_preset_installed(i)

\* set_preset: apply_preset has run, the guard is dropped
SetPresetUnlock ==
    /\ analyzer_lock = "command"
    /\ analyzer_lock' = "free"
    /\ UNCHANGED <<cap_pc, start_result, app_audio_capture, source_id,
                   thread_handle, command_rx, w_pc, w_error, buffer_lock,
                   cb_pc, cb_left, latest_result>>
    /\ UNCHANGED <<ringVars, tuneVars, nonCapVars>>

\* run_audio_thread from its entry to the main loop: device, config,
\* buffer, the shared analyzer built anew under its mutex, stream, play;
\* any error ends the thread
WorkerResolve ==
    \E outcome \in {"ok"} \cup resolve_errors(source_id) \cup SetupErrors :
        /\ w_pc = "resolve"
        /\ IF outcome = "ok"
           THEN /\ w_pc' = "top"
                /\ UNCHANGED w_error
           ELSE /\ w_pc' = "ended"
                /\ w_error' = outcome
        /\ UNCHANGED <<cap_pc, start_result, app_audio_capture, source_id,
                       thread_handle, command_rx, buffer_lock, analyzer_lock,
                       cb_pc, cb_left, latest_result>>
        /\ IF outcome \in {"ok"} \cup SetupErrors
           THEN /\ can_lock(analyzer_lock)
                /\ ana_tunables' = tunables(FftAnalyzer_new)
           ELSE UNCHANGED ana_tunables
        /\ UNCHANGED active_preset
        /\ UNCHANGED <<ringVars, nonCapVars>>

\* main loop: command_rx.try_recv()
WorkerTop ==
    /\ w_pc = "top"
    /\ IF command_rx > 0
       THEN /\ command_rx' = command_rx - 1
            /\ w_pc' = "ended"
       ELSE /\ w_pc' = "lock_buf"
            /\ UNCHANGED command_rx
    /\ UNCHANGED <<cap_pc, start_result, app_audio_capture, source_id,
                   thread_handle, w_error, buffer_lock, analyzer_lock,
                   cb_pc, cb_left, latest_result>>
    /\ UNCHANGED <<ringVars, tuneVars, nonCapVars>>

\* main loop: let buf = buffer.lock()
WorkerLockBuffer ==
    /\ w_pc = "lock_buf"
    /\ can_lock(buffer_lock)
    /\ buffer_lock' = "worker"
    /\ w_pc' = "lock_ana"
    /\ UNCHANGED <<cap_pc, start_result, app_audio_capture, source_id,
                   thread_handle, command_rx, w_error, analyzer_lock,
                   cb_pc, cb_left, latest_result>>
    /\ UNCHANGED <<ringVars, tuneVars, nonCapVars>>

\* main loop: let ana = analyzer.lock()
WorkerLockAnalyzer ==
    /\ w_pc = "lock_ana"
    /\ can_lock(analyzer_lock)
    /\ analyzer_lock' = "worker"
    /\ w_pc' = "copy"
    /\ UNCHANGED <<cap_pc, start_result, app_audio_capture, source_id,
                   thread_handle, command_rx, w_error, buffer_lock,
                   cb_pc, cb_left, latest_result>>
    /\ UNCHANGED <<ringVars, tuneVars, nonCapVars>>

\* main loop: (buf.get_latest(sz), sz), then both guards are dropped; a
\* window shorter than fft_size is not analysed
WorkerCopy ==
    /\ w_pc = "copy"
    /\ latest_count' = WorkerFftSize
    /\ latest' = get_latest(samples, write_pos, capacity, WorkerFftSize)
    /\ buffer_lock' = IF buffer_lock = "worker"
                      THEN release_after_copy(buffer_lock) ELSE buffer_lock
    /\ analyzer_lock' = "free"
    /\ w_pc' = IF Len(latest') >= WorkerFftSize THEN "process" ELSE "top"
    /\ UNCHANGED <<cap_pc, start_result, app_audio_capture, source_id,
                   thread_handle, command_rx, w_error, cb_pc, cb_left,
                   latest_result>>
    /\ UNCHANGED <<capacity, samples, write_pos, pushed>>
    /\ UNCHANGED <<tuneVars, nonCapVars>>

\* main loop: bl.process(&samples) has run; analyzer.lock() for analyze
WorkerProcess ==
    /\ w_pc = "process"
    /\ can_lock(analyzer_lock)
    /\ analyzer_lock' = "worker"
    /\ w_pc' = "analyze"
    /\ UNCHANGED <<cap_pc, start_result, app_audio_capture, source_id,
                   thread_handle, command_rx, w_error, buffer_lock,
                   cb_pc, cb_left, latest_result>>
    /\ UNCHANGED <<ringVars, tuneVars, nonCapVars>>

\* main loop: ana.analyze(&samples) has run and its guard is dropped; the
\* bass lane's result is merged in, the slot is written, the thread sleeps
WorkerAnalyze ==
    \E is_beat \in BOOLEAN, beat_intensity \in {NaN, 0, 7},
       i_kick \in BOOLEAN :
        /\ w_pc = "analyze"
        /\ analyzer_lock' = "free"
        /\ latest_result' =
             merge_bass_lane([is_beat |-> is_beat,
                              beat_intensity |-> beat_intensity], i_kick)
        /\ w_pc' = "top"
        /\ UNCHANGED <<cap_pc, start_result, app_audio_capture, source_id,
                       thread_handle, command_rx, w_error, buffer_lock,
                       cb_pc, cb_left>>
        /\ UNCHANGED <<ringVars, tuneVars, nonCapVars>>

\* the data callback is called with a slice of n mono samples
CallbackStart ==
    \E n \in 1..2 :
        /\ InLoop
        /\ cb_pc = "idle"
        /\ Len(pushed) + n <= MaxStream
        /\ cb_pc' = "want"
        /\ cb_left' = n
        /\ UNCHANGED <<cap_pc, start_result, app_audio_capture, source_id,
                       thread_handle, command_rx, w_pc, w_error, buffer_lock,
                       analyzer_lock, latest_result>>
        /\ UNCHANGED <<ringVars, tuneVars, nonCapVars>>

\* the callback: buffer.lock()
CallbackLock ==
    /\ cb_pc = "want"
    /\ can_lock(buffer_lock)
    /\ buffer_lock' = "callback"
    /\ cb_pc' = "store"
    /\ UNCHANGED <<cap_pc, start_result, app_audio_capture, source_id,
                   thread_handle, command_rx, w_pc, w_error, analyzer_lock,
                   cb_left, latest_result>>
    /\ UNCHANGED <<ringVars, tuneVars, nonCapVars>>

\* push_samples: self.samples[self.write_pos] = sample; the k-th sample of
\* the stream has the value k
CallbackStore ==
    /\ cb_pc = "store"
    /\ samples' = [samples EXCEPT ![write_pos + 1] = Len(pushed) + 1]
    /\ pushed' = Append(pushed, Len(pushed) + 1)
    /\ cb_pc' = "advance"
    /\ UNCHANGED <<capacity, write_pos, latest_count, latest>>
    /\ UNCHANGED <<cap_pc, start_result, app_audio_capture, source_id,
                   thread_handle, command_rx, w_pc, w_error, buffer_lock,
                   analyzer_lock, cb_left, latest_result>>
    /\ UNCHANGED <<tuneVars, nonCapVars>>

\* push_samples: self.write_pos = (self.write_pos + 1) % self.capacity; the
\* guard is dropped after the last sample
CallbackAdvance ==
    /\ cb_pc = "advance"
    /\ write_pos' = (write_pos + 1) % capacity
    /\ cb_left' = cb_left - 1
    /\ IF cb_left = 1
       THEN /\ cb_pc' = "idle"
            /\ buffer_lock' = IF buffer_lock = "callback" THEN "free"
                              ELSE buffer_lock
       ELSE /\ cb_pc' = "store"
            /\ UNCHANGED buffer_lock
    /\ UNCHANGED <<capacity, samples, pushed, latest_count, latest>>
    /\ UNCHANGED <<cap_pc, start_result, app_audio_capture, source_id,
                   thread_handle, command_rx, w_pc, w_error, analyzer_lock,
                   latest_result>>
    /\ UNCHANGED <<tuneVars, nonCapVars>>

\* stop_capture: audio_capture.take() and, in stop(), the send of Stop
StopSend ==
    /\ cap_pc = "installed"
    /\ app_audio_capture' = FALSE
    /\ command_rx' = stop_send(command_rx, w_pc)
    /\ cap_pc' = "stopping"
    /\ UNCHANGED <<start_result, source_id, thread_handle, w_pc, w_error,
                   buffer_lock, analyzer_lock, cb_pc, cb_left, latest_result>>
    /\ UNCHANGED <<ringVars, tuneVars, nonCapVars>>

\* stop(): thread_handle.take() and join, which returns when the thread
\* has ended
StopJoin ==
    /\ cap_pc = "stopping"
    /\ thread_handle => w_pc = "ended"
    /\ thread_handle' = FALSE
    /\ cap_pc' = "stopped"
    /\ UNCHANGED <<start_result, app_audio_capture, source_id, command_rx,
                   w_pc, w_error, buffer_lock, analyzer_lock, cb_pc, cb_left,
                   latest_result>>
    /\ UNCHANGED <<ringVars, tuneVars, nonCapVars>>

\* Drop for AudioCaptureHandle at the end of stop_capture: stop() again
\* (the send, then thread_handle is None)
DropStop ==
    /\ cap_pc = "stopped"
    /\ command_rx' = stop_send(command_rx, w_pc)
    /\ thread_handle' = FALSE
    /\ cap_pc' = "dropped"
    /\ UNCHANGED <<start_result, app_audio_capture, source_id, w_pc, w_error,
                   buffer_lock, analyzer_lock, cb_pc, cb_left, latest_result>>
    /\ UNCHANGED <<ringVars, tuneVars, nonCapVars>>

WorkerNext ==
    \/ WorkerResolve
    \/ WorkerTop
    \/ WorkerLockBuffer
    \/ WorkerLockAnalyzer
    \/ WorkerCopy
    \/ WorkerProcess
    \/ WorkerAnalyze

CallbackNext == CallbackStart \/ CallbackLock \/ CallbackStore \/ CallbackAdvance

CommandNext ==
    \/ StartCaptureSpawn
    \/ StartCaptureInstall
    \/ SetPresetLock
    \/ SetPresetUnlock
    \/ StopSend
    \/ StopJoin
    \/ DropStop

NextCapture == WorkerNext \/ CallbackNext \/ CommandNext

\* the capture with the set_preset calls that come before it and those
\* that change the preset
NextStart == SetPresetIdle \/ SetPresetLockOther \/ NextCapture

----------------------------------------------------------------------------
(* AppState.client and AppState.bridge_shutdown_tx between run_bridge     *)
(* tasks and a later connect_with_code / connect_direct: lib.rs lines     *)
(* 241-288 and 787-889.  Task 1 was spawned by the first connect call,    *)
(* which stored client 1; task 2 is spawned by the later call, which      *)
(* stores client LaterClient.  A DjClient made by the reconnect of task t *)
(* is ReconnectClient(t).  Steps that wait for nothing but the AppState   *)
(* mutex are over within the 150 ms the later call sleeps; a              *)
(* DjClient::connect (10 s connect timeout, 5 s handshake) need not be.   *)

\* reconnect attempts after which the model's bridge task gives up
\* (MAX_RECONNECT_ATTEMPTS in the code)
HandoffAttempts == 2

LaterClient == 2

ReconnectClient(t) == 2 + t

no_write == [task |-> 0, op |-> "none", obj |-> 0]

bridge_task_locals ==
    [shutdown_requested |-> FALSE, reconnect_count |-> 0, client |-> 0]

\* the first connect_with_code has returned Ok: its client and its
\* shutdown channel are stored, its run_bridge waits in the select
HandoffFresh ==
    /\ st_client = 1
    /\ st_shutdown_tx = 1
    /\ clients_open = {1}
    /\ sd_chan = [t \in Tasks |-> FALSE]
    /\ bt_pc = [t \in Tasks |-> IF t = 1 THEN "select" ELSE "none"]
    /\ bt_loc = [t \in Tasks |-> bridge_task_locals]
    /\ cc_pc = "idle"
    /\ cc_old_tx = 0
    /\ st_last = no_write

\* the server or the network closes a connection
ServerDrop ==
    /\ \E c \in clients_open : clients_open' = clients_open \ {c}
    /\ st_last' = no_write
    /\ UNCHANGED <<st_client, st_shutdown_tx, sd_chan, bt_pc, bt_loc, cc_pc,
                   cc_old_tx>>
    /\ UNCHANGED nonHandVars

\* run_bridge, interval.tick(): no client in AppState, or a client without
\* a sender: "Connection lost", break
TaskTickLost(t) ==
    /\ bt_pc[t] = "select"
    /\ st_client \notin clients_open
    /\ bt_pc' = [bt_pc EXCEPT ![t] = "cleanup"]
    /\ bt_loc' = [bt_loc EXCEPT ![t].shutdown_requested = FALSE]
    /\ st_last' = no_write
    /\ UNCHANGED <<st_client, st_shutdown_tx, clients_open, sd_chan, cc_pc,
                   cc_old_tx>>
    /\ UNCHANGED nonHandVars

\* run_bridge, shutdown_rx.recv() in the select of the inner loop
TaskRecvShutdown(t) ==
    /\ bt_pc[t] = "select"
    /\ sd_chan[t]
    /\ sd_chan' = [sd_chan EXCEPT ![t] = FALSE]
    /\ bt_pc' = [bt_pc EXCEPT ![t] = "cleanup"]
    /\ bt_loc' = [bt_loc EXCEPT ![t].shutdown_requested = TRUE]
    /\ st_last' = no_write
    /\ UNCHANGED <<st_client, st_shutdown_tx, clients_open, cc_pc,
                   cc_old_tx>>
    /\ UNCHANGED nonHandVars

\* run_bridge cleanup: app_state.client.take()
TaskCleanupTake(t) ==
    /\ bt_pc[t] = "cleanup"
    /\ bt_loc' = [bt_loc EXCEPT ![t].client = st_client]
    /\ st_client' = 0
    /\ bt_pc' = [bt_pc EXCEPT
                    ![t] = IF st_client # 0 THEN "disconnect" ELSE "cleaned"]
    /\ st_last' = IF st_client # 0
                  THEN [task |-> t, op |-> "take", obj |-> st_client]
                  ELSE no_write
    /\ UNCHANGED <<st_shutdown_tx, clients_open, sd_chan, cc_pc, cc_old_tx>>
    /\ UNCHANGED nonHandVars

\* run_bridge cleanup: client.disconnect().await on the client it took
TaskCleanupDisconnect(t) ==
    /\ bt_pc[t] = "disconnect"
    /\ clients_open' = clients_open \ {bt_loc[t].client}
    /\ bt_pc' = [bt_pc EXCEPT ![t] = "cleaned"]
    /\ st_last' = [task |-> t, op |-> "disconnect", obj |-> bt_loc[t].client]
    /\ bt_loc' = [bt_loc EXCEPT ![t].client = 0]
    /\ UNCHANGED <<st_client, st_shutdown_tx, sd_chan, cc_pc, cc_old_tx>>
    /\ UNCHANGED nonHandVars

\* run_bridge after the cleanup: on a requested shutdown, and after the
\* last attempt, bridge_shutdown_tx = None and the task ends; otherwise
\* the backoff
TaskAfterCleanup(t) ==
    /\ bt_pc[t] = "cleaned"
    /\ LET count == bt_loc[t].reconnect_count + 1
           stop  == \/ bt_loc[t].shutdown_requested
                    \/ count > HandoffAttempts
       IN  /\ bt_loc' = IF bt_loc[t].shutdown_requested THEN bt_loc
                        ELSE [bt_loc EXCEPT ![t].reconnect_count = count]
           /\ bt_pc' = [bt_pc EXCEPT
                           ![t] = IF stop THEN "stopped" ELSE "backoff"]
           /\ st_shutdown_tx' = IF stop THEN 0 ELSE st_shutdown_tx
           /\ st_last' = IF stop
                         THEN [task |-> t, op |-> "clear_tx",
                               obj |-> st_shutdown_tx]
                         ELSE no_write
    /\ UNCHANGED <<st_client, clients_open, sd_chan, cc_pc, cc_old_tx>>
    /\ UNCHANGED nonHandVars

\* run_bridge backoff: the sleep is over
TaskBackoffElapsed(t) ==
    /\ bt_pc[t] = "backoff"
    /\ bt_pc' = [bt_pc EXCEPT ![t] = "reconnecting"]
    /\ st_last' = no_write
    /\ UNCHANGED <<st_client, st_shutdown_tx, clients_open, sd_chan, bt_loc,
                   cc_pc, cc_old_tx>>
    /\ UNCHANGED nonHandVars

\* run_bridge backoff: shutdown_rx.recv() wins the select
TaskBackoffShutdown(t) ==
    /\ bt_pc[t] = "backoff"
    /\ sd_chan[t]
    /\ sd_chan' = [sd_chan EXCEPT ![t] = FALSE]
    /\ st_shutdown_tx' = 0
    /\ bt_pc' = [bt_pc EXCEPT ![t] = "stopped"]
    /\ st_last' = [task |-> t, op |-> "clear_tx", obj |-> st_shutdown_tx]
    /\ UNCHANGED <<st_client, clients_open, bt_loc, cc_pc, cc_old_tx>>
    /\ UNCHANGED nonHandVars

\* run_bridge reconnect: client.connect() returns Ok, the client is
\* stored, continue 'reconnect
TaskReconnectOk(t) ==
    /\ bt_pc[t] = "reconnecting"
    /\ st_client' = ReconnectClient(t)
    /\ clients_open' = clients_open \cup {ReconnectClient(t)}
    /\ bt_loc' = [bt_loc EXCEPT ![t].reconnect_count = 0]
    /\ bt_pc' = [bt_pc EXCEPT ![t] = "select"]
    /\ st_last' = [task |-> t, op |-> "store", obj |-> st_client]
    /\ UNCHANGED <<st_shutdown_tx, sd_chan, cc_pc, cc_old_tx>>
    /\ UNCHANGED nonHandVars

\* run_bridge reconnect: client.connect() returns Err, continue 'reconnect
TaskReconnectErr(t) ==
    /\ bt_pc[t] = "reconnecting"
    /\ bt_pc' = [bt_pc EXCEPT ![t] = "select"]
    /\ st_last' = no_write
    /\ UNCHANGED <<st_client, st_shutdown_tx, clients_open, sd_chan, bt_loc,
                   cc_pc, cc_old_tx>>
    /\ UNCHANGED nonHandVars

\* a bridge task that is in none of its network waits: such a task has
\* taken a waiting shutdown signal and finished its cleanup 150 ms later
task_within_sleep(t) ==
    \/ bt_pc[t] \in {"cleanup", "disconnect", "cleaned"}
    \/ bt_pc[t] \in {"select", "backoff"} /\ sd_chan[t]

\* connect_with_code, connect_direct: bridge_shutdown_tx.take() and, if it
\* was Some, tx.send(())
LaterConnectTakeTx ==
    /\ cc_pc = "idle"
    /\ cc_old_tx' = st_shutdown_tx
    /\ st_shutdown_tx' = 0
    /\ sd_chan' = IF st_shutdown_tx # 0
                  THEN [sd_chan EXCEPT ![st_shutdown_tx] = TRUE]
                  ELSE sd_chan
    /\ cc_pc' = IF st_shutdown_tx # 0 THEN "sleep" ELSE "connecting"
    /\ st_last' = no_write
    /\ UNCHANGED <<st_client, clients_open, bt_pc, bt_loc>>
    /\ UNCHANGED nonHandVars

\* connect_with_code after its sleep of 150 ms: client.take() and
\* disconnect() of the old client
LaterConnectAfterSleep ==
    /\ cc_pc = "sleep"
    /\ \A t \in Tasks : ~task_within_sleep(t)
    /\ st_client' = 0
    /\ clients_open' = clients_open \ {st_client}
    /\ cc_pc' = "connecting"
    /\ st_last' = no_write
    /\ UNCHANGED <<st_shutdown_tx, sd_chan, bt_pc, bt_loc, cc_old_tx>>
    /\ UNCHANGED nonHandVars

\* connect_with_code: client.connect() returns Ok; the client and the new
\* shutdown channel are stored and run_bridge is spawned
LaterConnectOk ==
    /\ cc_pc = "connecting"
    /\ st_client' = LaterClient
    /\ clients_open' = clients_open \cup {LaterClient}
    /\ st_shutdown_tx' = 2
    /\ bt_pc' = [bt_pc EXCEPT ![2] = "select"]
    /\ cc_pc' = "ok"
    /\ st_last' = no_write
    /\ UNCHANGED <<sd_chan, bt_loc, cc_old_tx>>
    /\ UNCHANGED nonHandVars

\* connect_with_code: client.connect() returns Err, the call returns it
LaterConnectErr ==
    /\ cc_pc = "connecting"
    /\ cc_pc' = "err"
    /\ st_last' = no_write
    /\ UNCHANGED <<st_client, st_shutdown_tx, clients_open, sd_chan, bt_pc,
                   bt_loc, cc_old_tx>>
    /\ UNCHANGED nonHandVars

NextHandoff ==
    \/ ServerDrop
    \/ \E t \in Tasks : TaskTickLost(t)
    \/ \E t \in Tasks : TaskRecvShutdown(t)
    \/ \E t \in Tasks : TaskCleanupTake(t)
    \/ \E t \in Tasks : TaskCleanupDisconnect(t)
    \/ \E t \in Tasks : TaskAfterCleanup(t)
    \/ \E t \in Tasks : TaskBackoffElapsed(t)
    \/ \E t \in Tasks : TaskBackoffShutdown(t)
    \/ \E t \in Tasks : TaskReconnectOk(t)
    \/ \E t \in Tasks : TaskReconnectErr(t)
    \/ LaterConnectTakeTx
    \/ LaterConnectAfterSleep
    \/ LaterConnectOk
    \/ LaterConnectErr

----------------------------------------------------------------------------
(* The mutexes and the order in which their users take them: capture.rs   *)
(* lines 155-160, 401-410, 472-508 and 530-554, voice.rs lines 143-150,   *)
(* 180 and 247, client.rs lines 300-322 and 395-397, lib.rs lines         *)
(* 398-408, 612-660, 700-730, 893-932, 990-1010, 1093-1102 and            *)
(* 1112-1125.  Every mutex is a parking_lot::Mutex: not reentrant, no     *)
(* poisoning, no timeout.  An actor's code is kept as the sequence of its *)
(* lock operations; what it computes between them is left out.  The       *)
(* take_pending_* accessors of DjClient are taken to lock the session     *)
(* state, the only mutex a DjClient has.                                  *)

Locks == {"app_state", "analyzer", "buffer", "bass_lane", "result",
          "voice_inner", "session"}

Actors == {"callback", "worker", "bridge", "reader", "command", "poll"}

acq(l) == [op |-> "acq", lock |-> l]

rel(l) == [op |-> "rel", lock |-> l]

\* build_stream, the data callback: streamer.push_samples, then
\* buffer.lock().push_samples
callback_body ==
    <<acq("voice_inner"), rel("voice_inner"), acq("buffer"), rel("buffer")>>

\* run_audio_thread, one iteration of its loop that also locks AppState
worker_loop_with_app_state ==
    <<acq("app_state"), rel("app_state"),
      acq("buffer"), acq("analyzer"), rel("analyzer"), rel("buffer"),
      acq("bass_lane"), rel("bass_lane"),
      acq("analyzer"), rel("analyzer"),
      acq("result"), rel("result")>>

\* run_audio_thread, one iteration of its loop: the copy under buffer and
\* analyzer, BassLane::process, analyze, the store of the result
worker_loop ==
    <<acq("buffer"), acq("analyzer"), rel("analyzer"), rel("buffer"),
      acq("bass_lane"), rel("bass_lane"),
      acq("analyzer"), rel("analyzer"),
      acq("result"), rel("result")>>

\* run_audio_thread before its loop: the shared analyzer is replaced
worker_setup == <<acq("analyzer"), rel("analyzer")>>

\* run_bridge, one tick: analysis and session state under AppState; the
\* voice streamer cloned under AppState and drained without it; the
\* preset sync and the status under AppState
bridge_tick ==
    <<acq("app_state"), acq("result"), rel("result"),
      acq("session"), rel("session"), rel("app_state"),
      acq("app_state"), rel("app_state"),
      acq("voice_inner"), rel("voice_inner"),
      acq("app_state"), acq("session"), rel("session"),
      acq("analyzer"), rel("analyzer"),
      acq("session"), rel("session"), rel("app_state")>>

\* DjClient reader task and heartbeat task: one update of the session state
reader_body == <<acq("session"), rel("session")>>

\* get_audio_levels: get_analysis under AppState
poll_body ==
    <<acq("app_state"), acq("result"), rel("result"), rel("app_state")>>

\* set_preset, and start_capture after new_with_voice: apply_preset under
\* AppState
set_preset_body ==
    <<acq("app_state"), acq("analyzer"), rel("analyzer"), rel("app_state")>>

\* stop_capture: capture.stop() under AppState
stop_capture_body ==
    <<acq("app_state"), [op |-> "stop", lock |-> "none"],
      [op |-> "join", lock |-> "none"], rel("app_state")>>

\* start_capture: set_enabled under AppState, new_with_voice, apply_preset
\* under AppState
start_capture_body ==
    <<acq("app_state"), acq("voice_inner"), rel("voice_inner"),
      rel("app_state"), [op |-> "spawn", lock |-> "none"]>>
        \o set_preset_body

\* set_voice_streaming: the config under AppState, set_enabled without
\* it, the status under AppState
set_voice_streaming_body ==
    <<acq("app_state"), rel("app_state"),
      acq("voice_inner"), rel("voice_inner"),
      acq("app_state"), rel("app_state")>>

\* a capture runs, a session is up, nobody holds a mutex
LockFresh ==
    /\ lk_holder = [l \in Locks |-> "none"]
    /\ lk_prog = [a \in Actors |-> IF a = "worker" THEN worker_setup
                                    ELSE <<>>]
    /\ lk_pc = [a \in Actors |-> 1]
    /\ lk_worker = "loop"
    /\ lk_stop_sent = FALSE

\* the actor has an operation left in its code
lk_running(a) == lk_pc[a] <= Len(lk_prog[a])

lk_op(a) == lk_prog[a][lk_pc[a]]

\* the actor's code after the operation at lk_pc: the next operation, or
\* the end of the code
lk_advance(a) ==
    IF lk_pc[a] < Len(lk_prog[a])
    THEN /\ lk_pc' = [lk_pc EXCEPT ![a] = lk_pc[a] + 1]
         /\ UNCHANGED lk_prog
    ELSE /\ lk_pc' = [lk_pc EXCEPT ![a] = 1]
         /\ lk_prog' = [lk_prog EXCEPT ![a] = <<>>]

\* an actor starts a piece of code
lk_start(a, body) ==
    /\ ~lk_running(a)
    /\ lk_prog' = [lk_prog EXCEPT ![a] = body]
    /\ lk_pc' = [lk_pc EXCEPT ![a] = 1]

\* the stream calls its data callback
LkCallbackStart ==
    /\ lk_worker = "loop"
    /\ lk_start("callback", callback_body)
    /\ UNCHANGED <<lk_holder, lk_worker, lk_stop_sent>>
    /\ UNCHANGED nonLockVars

\* run_audio_thread, top of the loop: no command, the next iteration
LkWorkerIterate ==
    /\ lk_worker = "loop"
    /\ ~lk_stop_sent
    /\ lk_start("worker", worker_loop)
    /\ UNCHANGED <<lk_holder, lk_worker, lk_stop_sent>>
    /\ UNCHANGED nonLockVars

\* run_audio_thread, top of the loop: AudioCommand::Stop, break
LkWorkerStop ==
    /\ lk_worker = "loop"
    /\ lk_stop_sent
    /\ ~lk_running("worker")
    /\ lk_worker' = "exiting"
    /\ lk_stop_sent' = FALSE
    /\ UNCHANGED <<lk_holder, lk_prog, lk_pc>>
    /\ UNCHANGED nonLockVars

\* run_audio_thread returns: the stream is dropped once its callback is
\* not running
LkWorkerExit ==
    /\ lk_worker = "exiting"
    /\ ~lk_running("callback")
    /\ lk_worker' = "ended"
    /\ UNCHANGED <<lk_holder, lk_prog, lk_pc, lk_stop_sent>>
    /\ UNCHANGED nonLockVars

\* run_bridge: interval.tick()
LkBridgeTick ==
    /\ lk_start("bridge", bridge_tick)
    /\ UNCHANGED <<lk_holder, lk_worker, lk_stop_sent>>
    /\ UNCHANGED nonLockVars

\* the reader or the heartbeat task of the session has a message
LkReaderMessage ==
    /\ lk_start("reader", reader_body)
    /\ UNCHANGED <<lk_holder, lk_worker, lk_stop_sent>>
    /\ UNCHANGED nonLockVars

\* the UI polls get_audio_levels
LkPoll ==
    /\ lk_start("poll", poll_body)
    /\ UNCHANGED <<lk_holder, lk_worker, lk_stop_sent>>
    /\ UNCHANGED nonLockVars

\* the UI invokes set_preset or set_voice_streaming
LkCommand ==
    /\ \E body \in {set_preset_body, set_voice_streaming_body} :
          lk_start("command", body)
    /\ UNCHANGED <<lk_holder, lk_worker, lk_stop_sent>>
    /\ UNCHANGED nonLockVars

\* the UI invokes stop_capture
LkStopCapture ==
    /\ lk_worker = "loop"
    /\ lk_start("command", stop_capture_body)
    /\ UNCHANGED <<lk_holder, lk_worker, lk_stop_sent>>
    /\ UNCHANGED nonLockVars

\* the UI invokes start_capture when no capture runs
LkStartCapture ==
    /\ lk_worker = "ended"
    /\ lk_start("command", start_capture_body)
    /\ UNCHANGED <<lk_holder, lk_worker, lk_stop_sent>>
    /\ UNCHANGED nonLockVars

\* Mutex::lock returns: the mutex was free
LkAcquire(a) ==
    /\ lk_running(a)
    /\ lk_op(a).op = "acq"
    /\ lk_holder[lk_op(a).lock] = "none"
    /\ lk_holder' = [lk_holder EXCEPT ![lk_op(a).lock] = a]
    /\ lk_advance(a)
    /\ UNCHANGED <<lk_worker, lk_stop_sent>>
    /\ UNCHANGED nonLockVars

\* a guard is dropped
LkRelease(a) ==
    /\ lk_running(a)
    /\ lk_op(a).op = "rel"
    /\ lk_holder' = [lk_holder EXCEPT ![lk_op(a).lock] = "none"]
    /\ lk_advance(a)
    /\ UNCHANGED <<lk_worker, lk_stop_sent>>
    /\ UNCHANGED nonLockVars

\* AudioCaptureHandle::stop: command_tx.send(AudioCommand::Stop)
LkSendStop(a) ==
    /\ lk_running(a)
    /\ lk_op(a).op = "stop"
    /\ lk_stop_sent' = (lk_worker = "loop")
    /\ lk_advance(a)
    /\ UNCHANGED <<lk_holder, lk_worker>>
    /\ UNCHANGED nonLockVars

\* AudioCaptureHandle::stop: handle.join() returns
LkJoin(a) ==
    /\ lk_running(a)
    /\ lk_op(a).op = "join"
    /\ lk_worker = "ended"
    /\ lk_advance(a)
    /\ UNCHANGED <<lk_holder, lk_worker, lk_stop_sent>>
    /\ UNCHANGED nonLockVars

\* AudioCaptureHandle::new_with_voice: the audio-capture thread is spawned
LkSpawn(a) ==
    /\ lk_running(a)
    /\ lk_op(a).op = "spawn"
    /\ lk_worker' = "loop"
    /\ lk_prog' = [lk_prog EXCEPT
                      !["worker"] = worker_setup,
                      ![a] = IF lk_pc[a] < Len(lk_prog[a]) THEN lk_prog[a]
                             ELSE <<>>]
    /\ lk_pc' = [lk_pc EXCEPT
                    !["worker"] = 1,
                    ![a] = IF lk_pc[a] < Len(lk_prog[a]) THEN lk_pc[a] + 1
                           ELSE 1]
    /\ UNCHANGED <<lk_holder, lk_stop_sent>>
    /\ UNCHANGED nonLockVars

NextLocks ==
    \/ LkCallbackStart
    \/ LkWorkerIterate
    \/ LkWorkerStop
    \/ LkWorkerExit
    \/ LkBridgeTick
    \/ LkReaderMessage
    \/ LkPoll
    \/ LkCommand
    \/ LkStopCapture
    \/ LkStartCapture
    \/ \E a \in Actors : LkAcquire(a)
    \/ \E a \in Actors : LkRelease(a)
    \/ \E a \in Actors : LkSendStop(a)
    \/ \E a \in Actors : LkJoin(a)
    \/ \E a \in Actors : LkSpawn(a)

\* whom the actor waits for: the holder of the mutex it is locking, the
\* audio-capture thread it joins, the callback whose stream it drops
lk_waits_for(a) ==
    IF a = "worker" /\ lk_worker = "exiting"
    THEN IF lk_running("callback") THEN "callback" ELSE "none"
    ELSE IF ~lk_running(a) THEN "none"
    ELSE IF lk_op(a).op = "acq" THEN lk_holder[lk_op(a).lock]
    ELSE IF lk_op(a).op = "join" /\ lk_worker # "ended" THEN "worker"
    ELSE "none"

\* the actor reached from a along n waits-for edges ("none": the chain
\* ends at an actor that can take a step)
RECURSIVE lk_chain(_, _)
lk_chain(a, n) ==
    IF a = "none" \/ n = 0 THEN a
    ELSE lk_chain(lk_waits_for(a), n - 1)

Ext4Fresh ==
    /\ HistoryFresh
    /\ NumericFresh
    /\ HandoffFresh
    /\ LockFresh

Ext3Fresh ==
    /\ TuneFresh
    /\ Ext4Fresh

\* the subsystems of the second group, freshly built
Ext2Fresh ==
    /\ BassFresh(48000)
    /\ PatternFresh
    /\ StateFresh
    /\ CaptureFresh
    /\ Ext3Fresh

\* the subsystems of the first group, freshly built
BaseFresh ==
    /\ RingFresh(1)
    /\ VoiceFresh
    /\ BridgeSpawned(FALSE)
    /\ ClientFresh("code")
    /\ AnalyzerFresh
    /\ PresetFresh
    /\ HostFresh(<< <<"l", "o", "c", "a", "l", "h", "o", "s", "t">> >>, "session")
    /\ RouteFresh(ConnectionState_default)

----------------------------------------------------------------------------
(* Specifications: one per subsystem, the other subsystems freshly built. *)

InitRingSpec ==
    /\ \E cap \in 1..MaxCap : RingFresh(cap)
    /\ VoiceFresh
    /\ BridgeSpawned(FALSE)
    /\ ClientFresh("code")
    /\ AnalyzerFresh
    /\ PresetFresh
    /\ HostFresh(<< <<"l", "o", "c", "a", "l", "h", "o", "s", "t">> >>, "session")
    /\ RouteFresh(ConnectionState_default)
    /\ Ext2Fresh

SpecRing == InitRingSpec /\ [][NextRing]_vars

InitVoiceSpec ==
    /\ RingFresh(1)
    /\ VoiceFresh
    /\ BridgeSpawned(FALSE)
    /\ ClientFresh("code")
    /\ AnalyzerFresh
    /\ PresetFresh
    /\ HostFresh(<< <<"l", "o", "c", "a", "l", "h", "o", "s", "t">> >>, "session")
    /\ RouteFresh(ConnectionState_default)
    /\ Ext2Fresh

SpecVoice == InitVoiceSpec /\ [][NextVoice]_vars

SpecVoiceTick == InitVoiceSpec /\ [][NextVoiceTick]_vars

InitBridgeSpec ==
    /\ RingFresh(1)
    /\ VoiceFresh
    /\ \E cap \in BOOLEAN : BridgeSpawned(cap)
    /\ ClientFresh("code")
    /\ AnalyzerFresh
    /\ PresetFresh
    /\ HostFresh(<< <<"l", "o", "c", "a", "l", "h", "o", "s", "t">> >>, "session")
    /\ RouteFresh(ConnectionState_default)
    /\ Ext2Fresh

SpecBridge == InitBridgeSpec /\ [][NextBridge]_vars

InitConnectSpec ==
    /\ RingFresh(1)
    /\ VoiceFresh
    /\ BridgeSpawned(FALSE)
    /\ \E creds \in CredentialKinds : ClientFresh(creds)
    /\ AnalyzerFresh
    /\ PresetFresh
    /\ HostFresh(<< <<"l", "o", "c", "a", "l", "h", "o", "s", "t">> >>, "session")
    /\ RouteFresh(ConnectionState_default)
    /\ Ext2Fresh

SpecConnect == InitConnectSpec /\ [][NextConnect]_vars

\* the clock goes on, and tokio wakes a timeout that has expired
FairSpecConnect ==
    /\ SpecConnect
    /\ WF_vars(TimePasses)
    /\ WF_vars(HandshakeTimeout)

InitAnalyzerSpec ==
    /\ RingFresh(1)
    /\ VoiceFresh
    /\ BridgeSpawned(FALSE)
    /\ ClientFresh("code")
    /\ AnalyzerFresh
    /\ PresetFresh
    /\ HostFresh(<< <<"l", "o", "c", "a", "l", "h", "o", "s", "t">> >>, "session")
    /\ RouteFresh(ConnectionState_default)
    /\ Ext2Fresh

SpecAnalyzer == InitAnalyzerSpec /\ [][NextAnalyzer]_vars

InitBeatSpec ==
    /\ RingFresh(1)
    /\ VoiceFresh
    /\ BridgeSpawned(FALSE)
    /\ ClientFresh("code")
    /\ AnalyzerFresh
    /\ PresetFresh
    /\ HostFresh(<< <<"l", "o", "c", "a", "l", "h", "o", "s", "t">> >>, "session")
    /\ RouteFresh(ConnectionState_default)
    /\ Ext2Fresh

SpecBeat == InitBeatSpec /\ [][NextBeat]_vars

InitTempoSpec ==
    /\ RingFresh(1)
    /\ VoiceFresh
    /\ BridgeSpawned(FALSE)
    /\ ClientFresh("code")
    /\ AnalyzerFresh
    /\ PresetFresh
    /\ HostFresh(<< <<"l", "o", "c", "a", "l", "h", "o", "s", "t">> >>, "session")
    /\ RouteFresh(ConnectionState_default)
    /\ Ext2Fresh

SpecTempo == InitTempoSpec /\ [][NextTempo]_vars

InitPresetSpec ==
    /\ RingFresh(1)
    /\ VoiceFresh
    /\ BridgeSpawned(FALSE)
    /\ ClientFresh("code")
    /\ AnalyzerFresh
    /\ PresetFresh
    /\ HostFresh(<< <<"l", "o", "c", "a", "l", "h", "o", "s", "t">> >>, "session")
    /\ RouteFresh(ConnectionState_default)
    /\ Ext2Fresh

SpecPreset == InitPresetSpec /\ [][NextPreset]_vars

InitSchemeSpec ==
    /\ RingFresh(1)
    /\ VoiceFresh
    /\ BridgeSpawned(FALSE)
    /\ ClientFresh("code")
    /\ AnalyzerFresh
    /\ PresetFresh
    /\ \E h \in HostInputs, site \in UrlSites : HostFresh(h, site)
    /\ RouteFresh(ConnectionState_default)
    /\ Ext2Fresh

SpecScheme == InitSchemeSpec /\ [][NextScheme]_vars

InitRouteSpec ==
    /\ RingFresh(1)
    /\ VoiceFresh
    /\ BridgeSpawned(FALSE)
    /\ ClientFresh("code")
    /\ AnalyzerFresh
    /\ PresetFresh
    /\ HostFresh(<< <<"l", "o", "c", "a", "l", "h", "o", "s", "t">> >>, "session")
    /\ RouteFresh(ConnectionState_default)
    /\ Ext2Fresh

SpecRoute == InitRouteSpec /\ [][NextRoute]_vars

\* the server has put the session on a dual route to h:1, zone z
InitReconnectSpec ==
    /\ RingFresh(1)
    /\ VoiceFresh
    /\ BridgeSpawned(FALSE)
    /\ ClientFresh("code")
    /\ AnalyzerFresh
    /\ PresetFresh
    /\ HostFresh(<< <<"l", "o", "c", "a", "l", "h", "o", "s", "t">> >>, "session")
    /\ RouteFresh(DualRoute(<<"h">>, 1, << <<"z">> >>, <<>>))
    /\ Ext2Fresh

SpecReconnect == InitReconnectSpec /\ [][NextReconnect]_vars

\* Fairness: the bridge task, the session tasks and the second half of a
\* running command handler are scheduled (weak fairness).  tokio::select!
\* polls its branches in random order, so a shutdown branch that is ready
\* again and again at the select is taken eventually (strong fairness).
\* Commands (disconnect, start/stop capture) and the loss of the session are
\* not forced to happen.
FairSpecBridge ==
    /\ SpecBridge
    /\ WF_vars(BridgeTick)
    /\ SF_vars(BridgeRecvShutdownTick)
    /\ WF_vars(BridgeCleanup)
    /\ WF_vars(BackoffSecond)
    /\ WF_vars(BackoffElapsed)
    /\ SF_vars(BridgeRecvShutdownBackoff)
    /\ WF_vars(BridgeReconnect)
    /\ WF_vars(SessionWriterSend)
    /\ WF_vars(SessionHeartbeat)
    /\ WF_vars(CmdDisconnectReset)

\* The same with strong fairness for the tick and the session tasks: a tick
\* that could act again and again (the interval fires every 16 ms) does act,
\* even if start/stop capture commands keep interrupting it.
StrongFairSpecBridge ==
    /\ FairSpecBridge
    /\ SF_vars(BridgeTick)
    /\ SF_vars(BridgeCleanup)
    /\ SF_vars(SessionWriterSend)
    /\ SF_vars(SessionHeartbeat)

----------------------------------------------------------------------------
(* C1.  get_latest(n), n <= capacity, against the push history.            *)

\* a sequence of n zeros
Zeros(n) == [i \in 1..n |-> 0]

\* C1 (as stated): for n <= capacity, get_latest(n) returns exactly the
\* last n elements of the concatenation of all samples pushed so far.
C1_LatestIsSuffixOfPushed ==
    (latest_count >= 0 /\ latest_count <= capacity)
        => latest = LastN(pushed, latest_count)

\* C1 (amended): for n <= capacity, get_latest(n) returns the last n
\* elements of the initial fill (capacity zeros) followed by all samples
\* pushed so far; once at least n samples were pushed these are exactly the
\* last n pushed samples, in chronological order.
C1_LatestIsSuffixOfZeroPaddedPushed ==
    (latest_count >= 0 /\ latest_count <= capacity)
        => /\ latest = LastN(Zeros(capacity) \o pushed, latest_count)
           /\ Len(pushed) >= latest_count
                => latest = SubSeq(pushed, Len(pushed) - latest_count + 1,
                                   Len(pushed))

\* a read of the whole buffer after a push that wrapped around
C1_Witness ==
    /\ latest_count = capacity
    /\ capacity >= 2
    /\ Len(pushed) > capacity
    /\ write_pos # 0
    /\ latest = LastN(pushed, capacity)

----------------------------------------------------------------------------
(* C2.  Backoff delays of run_bridge.                                      *)

\* the delays the specification lists for ten consecutive failures
ExpectedDelays == <<1, 2, 4, 8, 16, 30, 30, 30, 30, 30>>

\* C2: the wait before the k-th consecutive reconnect attempt, k = 1..10,
\* is min(2^(k-1), 30) seconds: the delays since the last successful
\* connection are a prefix of 1, 2, 4, 8, 16, 30, 30, 30, 30, 30, and the
\* k-th attempt starts after sleeping exactly the k-th of them.
C2_BackoffDelays ==
    /\ Len(delays) <= 10
    /\ \A k \in 1..Len(delays) : delays[k] = ExpectedDelays[k]
    /\ b_pc \in {"backoff", "connecting"}
         => /\ Len(delays) = consec_failed + 1
            /\ delay_secs = ExpectedDelays[consec_failed + 1]
    /\ b_pc = "connecting" => waited = ExpectedDelays[consec_failed + 1]

\* the tenth consecutive attempt is starting, after the full delay sequence
C2_Witness ==
    /\ b_pc = "connecting"
    /\ delays = ExpectedDelays
    /\ waited = 30

----------------------------------------------------------------------------
(* C3.  Retry cap of run_bridge.                                           *)

\* C3: the bridge makes at most 10 consecutive failed reconnect attempts;
\* after the 10th consecutive failure it starts no further attempt, and when
\* it then leaves the reconnect loop (not by shutdown) it records the
\* "max retries reached" error and stays stopped; a successful reconnect
\* resets the attempt counter to 0.
C3_RetryCap ==
    /\ [](/\ consec_failed <= 10
          /\ b_pc \in {"backoff", "connecting"} => consec_failed <= 9
          /\ exit_reason = "max_retries" => (b_pc = "done" /\ consec_failed = 10))
    /\ [][ /\ consec_failed = 10 => b_pc' \notin {"backoff", "connecting"}
           /\ b_pc = "done" => b_pc' = "done"
           /\ (b_pc = "cleanup" /\ b_pc' # "cleanup" /\ consec_failed = 10
                  /\ ~shutdown_requested)
                => (b_pc' = "done" /\ status_error' = "max_retries"
                    /\ exit_reason' = "max_retries")
           /\ (b_pc = "connecting" /\ client' = "some")
                => (reconnect_count' = 0 /\ consec_failed' = 0) ]_vars

\* the bridge gave up after ten consecutive failures
C3_Witness ==
    /\ b_pc = "done"
    /\ exit_reason = "max_retries"
    /\ consec_failed = 10
    /\ status_error = "max_retries"
    /\ ~shutdown_received

----------------------------------------------------------------------------
(* C4.  Authentication errors on reconnect.                                *)

\* C4: when a connection attempt made by the bridge fails with an
\* authentication error, the bridge reports the error and stops: it waits
\* for and makes no further reconnect attempt.
C4_NoReconnectAfterAuthError ==
    auth_failed => b_pc \notin {"backoff", "connecting"}

----------------------------------------------------------------------------
(* C5.  Loss of the session while the bridge ticks.                        *)

\* C5: if the session is lost while the bridge is in its tick loop (the
\* reader set connected = false, or the outbound channel is closed), the
\* bridge eventually tears the session down and enters the backoff wait,
\* unless it stops for a shutdown or at the attempt cap.
C5_LostLeadsToBackoff ==
    (b_pc = "tick_select" /\ client = "some"
        /\ (~sess_connected \/ ~writer_alive))
      ~> (b_pc \in {"backoff", "done"})

----------------------------------------------------------------------------
(* C6.  Shutdown of the bridge.                                            *)

\* C6: once the bridge has received the shutdown signal (in the tick loop
\* or in the backoff wait) it only cleans up and terminates, starting no
\* further connection attempt; a signal received in the backoff wait ends
\* the wait at once, however much of the delay is left; and after a
\* shutdown signal is sent the bridge eventually terminates.
C6_ShutdownStopsBridge ==
    /\ [](shutdown_received => b_pc \in {"cleanup", "done"})
    /\ [][ (b_pc = "backoff" /\ shutdown_sig /\ ~shutdown_sig')
              => b_pc' = "done" ]_vars
    /\ (shutdown_sig ~> b_pc = "done")

\* the bridge ended on a shutdown taken in the middle of a backoff wait
C6_Witness ==
    /\ b_pc = "done"
    /\ exit_reason = "shutdown_backoff"
    /\ shutdown_received
    /\ delay_secs >= 2
    /\ waited < delay_secs

----------------------------------------------------------------------------
(* C7.  Heartbeats and the handshake.                                      *)

\* positions of the messages of one kind on the wire
WirePositions(kind) == {i \in 1..Len(wire) : wire[i] = kind}

----------------------------------------------------------------------------
(* C8.  Authentication before READY.                                       *)

\* C8: connect() returns Ok and marks the session connected only after an
\* auth_success was received on that connection: at the return,
\* connected = true implies authenticated = true.
C8_ReadyOnlyAfterAuthSuccess ==
    [][ (c_pc = "handshake" /\ c_pc' = "ready" /\ cs_connected')
            => (auth_success_seen' /\ cs_authenticated') ]_vars

----------------------------------------------------------------------------
(* C9.  Bound of the voice frame queue.                                    *)

\* C9: in every reachable state of the VoiceStreamer, under any sequence of
\* push_samples, drain_frames and set_enabled calls, the frame queue holds
\* at most 50 frames.
C9_QueueAtMost50 == Len(frames) <= 50

\* the queue is full and at least one older frame has been dropped from it
C9_Witness ==
    /\ Len(frames) = MAX_QUEUED_FRAMES
    /\ Head(frames) > 1
    /\ drained = 0
    /\ produced > MAX_QUEUED_FRAMES

----------------------------------------------------------------------------
(* C10.  Sequence numbers given by drain_frames.                           *)

\* C10: across all drain_frames calls on one VoiceStreamer the drained
\* frames get the sequence numbers 0, 1, 2, ... in drain order (the i-th
\* frame ever drained gets i-1), and no step, set_enabled included, moves
\* the counter back.
C10_DrainSeqConsecutive ==
    [][ /\ \A i \in 1..Len(drain_result') :
              drain_result'[i].seq = drained + (i - 1)
        /\ voice_seq' >= voice_seq
        /\ voice_seq' = drained' ]_vars

\* a drain of two or more frames, after an earlier drain and after frames
\* were lost (cleared by set_enabled(false) or dropped on overflow)
C10_Witness ==
    /\ Len(drain_result) >= 2
    /\ drain_result[1].seq >= 1
    /\ drain_result[1].frame > drain_result[1].seq + 1
    /\ drain_result[2].seq = drain_result[1].seq + 1

----------------------------------------------------------------------------
(* C11.  set_enabled(false) against a push_samples in flight.              *)

\* C11: once set_enabled(false) has returned and until set_enabled(true) is
\* called (enabled is false through that whole time), drain_frames returns
\* no frames, whatever the interleaving with push_samples calls of the
\* audio callback thread.
C11_NoFramesWhileDisabled == ~enabled => drain_result = <<>>

----------------------------------------------------------------------------
(* C12.  Framing of a 48 kHz source.                                       *)

\* C12: with a 48 kHz source, when the push_samples calls made while
\* streaming is enabled have taken in T mono sample-frames in total (and no
\* set_enabled(false) has thrown any of them away), exactly floor(T / 960)
\* frames have been enqueued and the frame buffer holds T mod 960 samples,
\* fewer than 960, with nothing left in the residual; with no drain and no
\* overflow these frames are the queue; and a PCM frame decodes to 1920
\* bytes.
C12_FramesAreFloorOfSamples ==
    /\ frame_buffer_len < 960
    /\ mono_total >= 0 =>
          /\ produced = mono_total \div 960
          /\ frame_buffer_len = mono_total % 960
          /\ residual_len = 0
          /\ (drained = 0 /\ produced <= 50) => Len(frames) = produced
    /\ base64_decoded_len(encode_pcm_frame(VOICE_FRAME_SAMPLES)) = 1920

\* several pushes have left whole frames in the queue and half a frame in
\* the frame buffer
C12_Witness ==
    /\ enabled
    /\ push_pending = -1
    /\ drained = 0
    /\ mono_total = 3 * 960 + 480
    /\ Len(frames) = 3
    /\ frame_buffer_len = 480

----------------------------------------------------------------------------
(* C13.  Beat cooldown of the analyzer.                                    *)

\* C13: when an analyze call reports is_beat = true, none of the 7 calls
\* before it reported a beat: a beat at frame f is followed by no beat at
\* frames f+1 .. f+7, whatever the bass amplitude and the tempo lock.
C13_NoBeatWithinCooldown == beat_gap = -1 \/ beat_gap >= 8

----------------------------------------------------------------------------
(* C14.  apply_preset.                                                     *)

\* the five tunables of the analyzer
TunableFields ==
    {"attack", "release", "beat_threshold", "bass_weight", "band_sensitivity"}

----------------------------------------------------------------------------
(* C15.  get_preset.                                                       *)

\* s and t are equal up to the case of their characters
CaseEqual(s, t) ==
    /\ Len(s) = Len(t)
    /\ \A k \in 1..Len(s) :
          \/ s[k] = t[k]
          \/ \E j \in 1..Len(UpperChars) :
                {s[k], t[k]} = {UpperChars[j], LowerChars[j]}

\* the names of the built-in presets
PresetNames ==
    { <<"a", "u", "t", "o">>, <<"e", "d", "m">>,
      <<"c", "h", "i", "l", "l">>, <<"r", "o", "c", "k">>,
      <<"h", "i", "p", "h", "o", "p">>,
      <<"c", "l", "a", "s", "s", "i", "c", "a", "l">> }

\* C15: get_preset(name) returns the built-in preset (auto, edm, chill,
\* rock, hiphop, classical) whose name equals name up to case, the stored
\* name being in lower case, and returns None for every other name.
C15_GetPresetCaseInsensitive ==
    /\ {get_presets[i].name : i \in 1..Len(get_presets)} = PresetNames
    /\ lookup_result # -1 =>
          IF \E n \in PresetNames : CaseEqual(lookup_name, n)
          THEN /\ lookup_result \in 1..Len(get_presets)
               /\ CaseEqual(lookup_name, get_presets[lookup_result].name)
               /\ \A k \in 1..Len(get_presets[lookup_result].name) :
                     \A j \in 1..Len(UpperChars) :
                        get_presets[lookup_result].name[k] # UpperChars[j]
          ELSE lookup_result = 0

\* classical has been found under a spelling of mixed case
C15_Witness ==
    /\ lookup_result = 6
    /\ lookup_name[1] = "C"
    /\ lookup_name[2] = "l"
    /\ lookup_name[9] = "L"

----------------------------------------------------------------------------
(* C16.  Range of the reported BPM.                                        *)

\* C16: the bpm of every AnalysisResult is 0 or lies in 60..200, and
\* estimated_bpm, 120 at first, stays in 60..200.
C16_BpmRange ==
    /\ analysis.bpm = 0 \/ (analysis.bpm >= 60 /\ analysis.bpm <= 200)
    /\ fa.estimated_bpm >= 60 /\ fa.estimated_bpm <= 200
    /\ fa.frame = 0 => fa.estimated_bpm = 120

\* tempo updates have driven the estimate to the upper end of its range
C16_Witness ==
    /\ analysis.bpm = 200
    /\ fa.estimated_bpm = 200
    /\ fa.ioi_len >= 4

----------------------------------------------------------------------------
(* C17.  ws:// or wss://.                                                  *)

\* the decimal numeral of n, 0 <= n <= 255, as a label
DecimalLabel(n) ==
    IF n < 10 THEN <<DigitChars[n + 1]>>
    ELSE IF n < 100
    THEN <<DigitChars[(n \div 10) + 1], DigitChars[(n % 10) + 1]>>
    ELSE <<DigitChars[(n \div 100) + 1], DigitChars[((n \div 10) % 10) + 1],
           DigitChars[(n % 10) + 1]>>

\* host is the dotted quad of an address in 127/8, 10/8, 172.16/12 or
\* 192.168/16
PrivateQuad(host) ==
    /\ Len(host) = 4
    /\ \A k \in 1..4 : \E n \in 0..255 : host[k] = DecimalLabel(n)
    /\ LET a == CHOOSE n \in 0..255 : host[1] = DecimalLabel(n)
           b == CHOOSE n \in 0..255 : host[2] = DecimalLabel(n)
       IN  \/ a = 127
           \/ a = 10
           \/ (a = 172 /\ b \in 16..31)
           \/ (a = 192 /\ b = 168)

\* C17: the scheme chosen for a host, for the session URL and for the direct
\* route URL alike, is ws exactly when the host is the literal localhost or
\* an IPv4 address in 127/8, 10/8, 172.16/12 or 192.168/16, and wss for
\* every other address and every other host name.
C17_LocalHostsGetWs ==
    url_result # "none" =>
        url_result =
            IF \/ url_host = << <<"l", "o", "c", "a", "l", "h", "o", "s", "t">> >>
               \/ PrivateQuad(url_host)
            THEN "ws" ELSE "wss"

\* ws has been chosen for the direct route to 172.31.x.x
C17_Witness ==
    /\ url_result = "ws"
    /\ url_site = "direct"
    /\ Len(url_host) = 4
    /\ url_host[1] = <<"1", "7", "2">>
    /\ url_host[2] = <<"3", "1">>

----------------------------------------------------------------------------
(* C18.  The direct connection is held only under a dual route.            *)

\* the session state asks for the direct route
RouteCondition(cs) ==
    /\ cs.route_mode = "dual"
    /\ cs.is_active
    /\ cs.mc_host # <<>>
    /\ cs.mc_port # <<>>

\* C18: after a tick whose session state does not have route_mode = dual,
\* is_active and both the renderer host and port, the bridge task holds no
\* direct connection (no sender, no shutdown handle, none of its sessions
\* open) and the tick has sent no init_pool and no batch_update.
C18_NoRouteNoDirectConnection ==
    (last_tick.task # 0 /\ ~RouteCondition(last_tick.cs)) =>
        /\ last_tick.sent = <<>>
        /\ rb[last_tick.task].mc_tx = 0
        /\ rb[last_tick.task].mc_shutdown_tx = 0
        /\ \A c \in DOMAIN mc_sessions :
              mc_sessions[c].owner = last_tick.task => ~mc_sessions[c].open

\* a tick under a relay route has just taken down a direct session on which
\* the task had published
C18_Witness ==
    /\ last_tick.task = 1
    /\ last_tick.cs.route_mode = "relay"
    /\ last_tick.cs.is_active
    /\ last_tick.cs.mc_host # <<>>
    /\ last_tick.cs.mc_port # <<>>
    /\ route_pc[1] = "select"
    /\ vj_frames[1] # <<>>
    /\ \E c \in DOMAIN mc_sessions :
          /\ mc_sessions[c].owner = 1
          /\ ~mc_sessions[c].open

----------------------------------------------------------------------------
(* C19.  init_pool before batch_update.                                    *)

\* the route a tick publishes for
TickRoute == resolve_direct_mc_route(last_tick.cs)[1]

\* C19: every batch_update of a tick goes out on a session whose latest
\* init_pool carried the zone and the entity count of the tick's route, and
\* every init_pool of a tick is the first on its session or follows a
\* change of (host, port, zone, entity_count) since the session's previous
\* init_pool.
C19_InitPoolBeforeBatchUpdate ==
    \A i \in DOMAIN last_tick.sent :
        LET msg == last_tick.sent[i]
        IN  /\ msg.type = "batch_update" =>
                  mc_sessions[msg.conn].init =
                      <<[zone |-> TickRoute.zone,
                         count |-> TickRoute.entity_count]>>
            /\ msg.type = "init_pool" =>
                  (msg.prev = <<>> \/ msg.prev # <<TickRoute>>)

----------------------------------------------------------------------------
(* C20.  seq of the dj_audio_frame messages.                               *)

\* C20: in every connection of every bridge task the seq values of the
\* frames sent so far are 0, 1, 2, ... in this order.
C20_FrameSeqFromZeroByOne ==
    \A t \in Tasks :
        \A i \in 1..Len(vj_frames[t]) : vj_frames[t][i] = i - 1

InitBassSpec ==
    /\ BaseFresh
    /\ \E sample_rate \in BassRates : BassFresh(sample_rate)
    /\ PatternFresh
    /\ StateFresh
    /\ CaptureFresh
    /\ Ext3Fresh

SpecBass == InitBassSpec /\ [][NextBass]_vars

InitPatternSpec ==
    /\ BaseFresh
    /\ Ext2Fresh

SpecPattern == InitPatternSpec /\ [][NextPattern]_vars

SpecState == InitPatternSpec /\ [][NextState]_vars

InitCaptureSpec ==
    /\ RingFresh(MaxCap)
    /\ VoiceFresh
    /\ BridgeSpawned(FALSE)
    /\ ClientFresh("code")
    /\ AnalyzerFresh
    /\ PresetFresh
    /\ HostFresh(<< <<"l", "o", "c", "a", "l", "h", "o", "s", "t">> >>, "session")
    /\ RouteFresh(ConnectionState_default)
    /\ Ext2Fresh

SpecCapture == InitCaptureSpec /\ [][NextCapture]_vars

SpecStart == InitCaptureSpec /\ [][NextStart]_vars

SpecHistory == InitPatternSpec /\ [][NextHistory]_vars

SpecSilence == InitPatternSpec /\ [][NextSilence]_vars

\* every thread that can take a step takes one in the end
FairSpecCapture ==
    /\ SpecCapture
    /\ WF_vars(WorkerNext)
    /\ WF_vars(CallbackNext)
    /\ WF_vars(SetPresetUnlock)
    /\ WF_vars(StopJoin)

----------------------------------------------------------------------------
(* C21.  At most 3 voice_audio messages per tick.                          *)

\* C21: the voice_audio messages one bridge tick sends are at most 3,
\* however many frames its drain of the VoiceStreamer returned.
C21_AtMostThreeVoiceFramesPerTick == Len(voice_sent) <= 3

\* a tick has drained more than 3 frames and sent 3
C21_Witness ==
    /\ Len(drain_result) > 3
    /\ Len(voice_sent) = 3

----------------------------------------------------------------------------
(* C28.  drain_frames returns the most recent min(k, 50) frames in order.  *)

\* C28: whenever drain_frames returns frames, with k the number of frames
\* produced since the queue was last emptied, it returns min(k, 50) frames
\* and they are the last min(k, 50) produced, oldest first.
C28_DrainReturnsMostRecentInOrder ==
    [][drain_result' # <<>> =>
          LET k == produced - emptied_at
              n == Len(drain_result')
          IN  /\ n = Min(k, MAX_QUEUED_FRAMES)
              /\ \A i \in 1..n : drain_result'[i].frame = produced - n + i]_vars

\* a drain after 52 frames were produced into a never-emptied queue has
\* returned frames 3..52
C28_Witness ==
    /\ Len(drain_result) = MAX_QUEUED_FRAMES
    /\ drain_result[1].frame = 3
    /\ drain_result[MAX_QUEUED_FRAMES].frame = 52
    /\ drained = MAX_QUEUED_FRAMES

----------------------------------------------------------------------------
(* C30.  BassLane cooldown.                                                *)

\* C30: a process call reports a kick only when samples_since_onset has
\* reached cooldown_samples = floor(0.15 * sample_rate), and between two
\* calls that report a kick at least cooldown_samples samples are processed
\* (those of the second call counted).
C30_KickOnlyAfterCooldown ==
    /\ cooldown_samples = (15 * bl_sample_rate) \div 100
    /\ bl_kick => bl_at_kick >= cooldown_samples
    /\ bl_gap # -1 => bl_gap >= cooldown_samples

\* a second kick reported exactly cooldown_samples samples after the first
C30_Witness ==
    /\ bl_kick
    /\ bl_gap = cooldown_samples
    /\ bl_at_kick = cooldown_samples

----------------------------------------------------------------------------
(* C24.  Entities of a batch_update.                                       *)

\* C24: the entities of every batch_update are the fallback generator's
\* when there is no engine, no pattern is loaded or the evaluation fails,
\* and they are the pattern's only when the evaluation succeeded.
C24_FallbackUnlessEvaluationSucceeds ==
    /\ batch.eval \in {"no_engine", "not_loaded", "err"}
          => batch.source = "fallback"
    /\ batch.source = "lua" => batch.eval = "ok"

\* a batch_update built from the fallback after the loaded pattern's
\* evaluation failed
C24_Witness ==
    /\ pattern_engine # <<>>
    /\ pattern_engine[1].pattern_loaded
    /\ batch.eval = "err"
    /\ batch.source = "fallback"

----------------------------------------------------------------------------
(* C25.  route_mode of the session state.                                  *)

----------------------------------------------------------------------------
(* C22.  A device error at the start of a capture.                         *)

\* C22: when the device of the source cannot be resolved (NoOutputDevice,
\* SourceNotFound), start_capture returns the error and installs no handle.
C22_DeviceErrorReturned ==
    (w_error \in {"NoOutputDevice", "SourceNotFound"} /\ start_result # "none")
        => /\ start_result = "err"
           /\ ~app_audio_capture

----------------------------------------------------------------------------
(* C23.  stop() ends the worker and returns.                               *)

\* C23: once stop() has sent its command, the worker ends and stop()
\* returns, whether the worker was running or had ended with an error;
\* the second stop(), from Drop, changes nothing on the handle, the channel
\* or the worker.
C23_StopEndsWorkerAndReturns ==
    /\ (cap_pc = "stopping")
          ~> (cap_pc \in {"stopped", "dropped"} /\ w_pc = "ended"
              /\ ~thread_handle)
    /\ [][(cap_pc = "stopped" /\ cap_pc' = "dropped")
             => UNCHANGED <<thread_handle, command_rx, w_pc, w_error,
                            latest_result, buffer_lock, analyzer_lock>>]_vars

\* both stops are done on a worker that was running its loop and had
\* copied a window
C23_Witness ==
    /\ cap_pc = "dropped"
    /\ w_pc = "ended"
    /\ w_error = "none"
    /\ latest_count = WorkerFftSize

----------------------------------------------------------------------------
(* C26.  The windows the worker copies.                                    *)

\* the stream position at which the window ends (0: in the initial fill)
window_end(window) == window[Len(window)]

\* successive windows end at non-decreasing positions of the stream
WindowEndsNonDecreasing ==
    [][(latest # <<>> /\ latest' # <<>>)
          => window_end(latest') >= window_end(latest)]_vars

\* C26 (as stated): every window the worker copies is the suffix of the
\* samples pushed so far, and the windows end at non-decreasing positions.
C26_WindowIsSuffixOfStream ==
    /\ [][(w_pc = "copy" /\ w_pc' # "copy")
             => latest' = LastN(pushed', WorkerFftSize)]_vars
    /\ WindowEndsNonDecreasing

\* C26 (amended): every window the worker copies is the suffix of the
\* initial fill of zeros followed by the samples stored so far, never a
\* state in the middle of a push, and the windows end at non-decreasing
\* positions.
C26_WindowIsSuffixOfPaddedStream ==
    /\ [][(w_pc = "copy" /\ w_pc' # "copy")
             => latest' = LastN(Zeros(capacity) \o pushed', WorkerFftSize)]_vars
    /\ WindowEndsNonDecreasing

\* a window copied between two pushes, while the callback waits for the
\* mutex with its next slice
C26_Witness ==
    /\ latest = <<2, 3>>
    /\ w_pc = "process"
    /\ cb_pc = "want"

----------------------------------------------------------------------------
(* C27.  The AudioBuffer mutex and the analysis.                           *)

\* C27: the worker does not hold the AudioBuffer mutex while it runs
\* BassLane::process or FftAnalyzer::analyze; it holds it only from its
\* lock() to the end of the copy.
C27_NoBufferLockDuringAnalysis ==
    /\ w_pc \in {"process", "analyze"} => buffer_lock # "worker"
    /\ buffer_lock = "worker" => w_pc \in {"lock_ana", "copy"}

\* the callback stores samples while the worker runs analyze
C27_Witness ==
    /\ w_pc = "analyze"
    /\ cb_pc = "store"
    /\ buffer_lock = "callback"

----------------------------------------------------------------------------
(* C29.  The published AnalysisResult.                                     *)

\* f32 >=
f32_ge(a, b) == a # NaN /\ b # NaN /\ a >= b

\* C29: in every result of the shared slot instant_kick implies is_beat,
\* and beat_intensity >= 0.5 when the bass lane reported a kick and analyze
\* no beat.
C29_KickImpliesBeat ==
    /\ latest_result.instant_kick => latest_result.is_beat
    /\ (latest_result.instant_kick /\ ~latest_result.fft_is_beat)
          => f32_ge(latest_result.beat_intensity, 5)

\* a published result whose beat comes from the bass lane alone
C29_Witness ==
    /\ latest_result.instant_kick
    /\ ~latest_result.fft_is_beat
    /\ latest_result.is_beat
    /\ latest_result.beat_intensity = 5

----------------------------------------------------------------------------
(* C37.  Every drained voice frame is sent unless a send fails.            *)

\* C37: when no send of a bridge tick fails, every frame its drain_frames
\* call removed from the queue (and numbered) is sent as voice_audio, so
\* the seq values on the wire have no gaps.
C37_EveryDrainedFrameIsSent ==
    ~voice_send_failed =>
        /\ Len(voice_sent) = Len(drain_result)
        /\ \A i \in 1..Len(voice_sent) : voice_sent[i] = drain_result[i]

----------------------------------------------------------------------------
(* C39.  A set_pattern that fails changes nothing.                         *)

\* C39: after a set_pattern call that returned an error while a pattern
\* was active, current_pattern, pattern_loaded and the interpreter state
\* (the chunk it has run and the calculate function it holds) are what
\* they were before the call: the active pattern keeps being evaluated.
C39_FailedSetPatternChangesNothing ==
    (/\ pattern_change.result = "err"
     /\ pattern_change.before[1].pattern_loaded
     /\ pattern_change.before[1].calculate)
        => pattern_engine = pattern_change.before

----------------------------------------------------------------------------
(* C35.  The running analyzer has the active preset's parameters.          *)

\* C35: once start_capture has returned Ok and the capture thread is in
\* its loop, the tunable parameters of the shared analyzer are those of the
\* preset named by AppState.active_preset, unless a set_preset is at work.
C35_RunningAnalyzerHasActivePreset ==
    (start_result = "ok" /\ InLoop /\ analyzer_lock # "command")
        => ana_tunables = tunables(get_presets[active_preset])

----------------------------------------------------------------------------
(* C38.  Each captured sample is fed to BassLane::process once.            *)

\* C38: the windows the worker feeds to BassLane::process in successive
\* iterations partition the captured stream: a window holds no captured
\* sample of the window before it (none is processed twice) and starts
\* right after that window's last sample (none is skipped).  A captured
\* sample is identified by its position in the stream, which is its value;
\* the zeros of the initial fill are not captured samples.
C38_EachSampleProcessedOnceInOrder ==
    [][(w_pc = "copy" /\ w_pc' # "copy" /\ latest # <<>>)
          => /\ \A i \in 1..Len(latest') :
                    latest'[i] > 0 => latest'[i] > window_end(latest)
             /\ \A k \in (window_end(latest) + 1)..window_end(latest') :
                    \E i \in 1..Len(latest') : latest'[i] = k]_vars

----------------------------------------------------------------------------
(* C36.  Direct messages go to the desired target only.                    *)

\* C36: every init_pool and batch_update of a tick is sent on a direct
\* session that was opened to the (host, port, zone) the session state of
\* that tick asks for.  Targets are told apart by their key, as run_bridge
\* tells them apart.
C36_SentOnlyToDesiredTarget ==
    \A i \in DOMAIN last_tick.sent :
        target_key(mc_sessions[last_tick.sent[i].conn].target)
            = target_key(TickRoute)

----------------------------------------------------------------------------
(* C31.  The histories of the analyzer stay within their bounds.           *)

\* C31: after any sequence of analyze calls beat_history holds at most 60
\* entries, flux_history at most 120, last_beat_times at most 20,
\* ioi_history at most 32, and tempo_histogram has exactly 201 bins.
C31_HistoriesWithinBounds ==
    /\ hist.beat_history <= 60
    /\ hist.flux_history <= 120
    /\ hist.last_beat_times <= 20
    /\ hist.ioi_history <= 32
    /\ hist.tempo_histogram = 201

\* every history is full: each has dropped its oldest entry or is about to
C31_Witness ==
    /\ hist.beat_history = BEAT_HISTORY_CAP
    /\ hist.flux_history = FLUX_HISTORY_CAP
    /\ hist.last_beat_times = BEAT_TIMES_CAP
    /\ hist.ioi_history = IOI_HISTORY_CAP

----------------------------------------------------------------------------
(* C32.  Silence from a fresh analyzer.                                    *)

\* C32: from a fresh analyzer with the default config, every result of a
\* run of all-zero frames of fft_size samples has bands = [0, 0, 0, 0, 0],
\* peak = 0, is_beat = false, beat_intensity = 0, bpm = 120,
\* tempo_confidence = 0 and beat_phase = 0.
C32_SilenceGivesZeroResult ==
    na.frame > 0 =>
        na_result = [bands |-> <<0, 0, 0, 0, 0>>, peak |-> 0,
                     is_beat |-> FALSE, beat_intensity |-> 0, bpm |-> 120,
                     tempo_confidence |-> 0, beat_phase |-> 0]

\* the result of a silent frame that came after both histories were full,
\* some time after the start
C32_Witness ==
    /\ na.frame > FLUX_HISTORY_CAP
    /\ Len(na.flux_history) = FLUX_HISTORY_CAP
    /\ na.now > 20
    /\ na_result.bpm = 120
    /\ na_result.peak = 0
    /\ ~na_result.is_beat

----------------------------------------------------------------------------
(* C33.  The handshake loop ends by its deadline.                          *)

\* C33: whatever the server sends, connect() is in its handshake loop only
\* up to the deadline of 5 s after the auth message, it leaves the loop in
\* the end, and it leaves it with an error or goes on to Ok(()): on a
\* timeout it goes on without the clock sync.
C33_HandshakeEndsByDeadline ==
    /\ [](c_pc = "handshake" => now <= HANDSHAKE_TIMEOUT_SECS)
    /\ [](hs_end # -1 => hs_end <= HANDSHAKE_TIMEOUT_SECS)
    /\ [](hs_how = "timeout" => c_result = "ok")
    /\ (c_pc = "handshake" ~> c_pc \in {"ready", "failed", "disconnected"})

\* a handshake that ended on its deadline after an auth_success and no
\* clock_sync_request
C33_Witness ==
    /\ hs_how = "timeout"
    /\ hs_end = HANDSHAKE_TIMEOUT_SECS
    /\ auth_success_seen
    /\ c_result = "ok"

----------------------------------------------------------------------------
(* C34.  A bridge task that was sent shutdown and the later connect.       *)

SpecHandoff == InitPatternSpec /\ [][NextHandoff]_vars

\* C34: a bridge task whose shutdown signal was sent by the later
\* connect_with_code / connect_direct call does not take, disconnect or
\* overwrite the client that call stored and does not clear the
\* bridge_shutdown_tx that call stored.
C34_StoppedTaskLeavesLaterConnectAlone ==
    (st_last.task # 0 /\ st_last.task = cc_old_tx)
        => /\ ~(st_last.op \in {"take", "disconnect", "store"}
                  /\ st_last.obj = LaterClient)
           /\ ~(st_last.op = "clear_tx" /\ st_last.obj = 2)

----------------------------------------------------------------------------
(* C40.  No cyclic wait among the users of the mutexes.                    *)

SpecLocks == InitPatternSpec /\ [][NextLocks]_vars

\* C40: in every state every chain of waits (an actor locking a mutex waits
\* for its holder, stop_capture waits for the audio-capture thread it
\* joins) ends at an actor that can take a step: no actor waits, directly
\* or through others, for itself, and some actor can always go on.
C40_NoCyclicWait ==
    /\ \A a \in Actors : lk_chain(a, Cardinality(Actors)) = "none"
    /\ \A l \in Locks :
          lk_holder[l] # "none" =>
              /\ lk_running(lk_holder[l])
              /\ \E i \in lk_pc[lk_holder[l]]..Len(lk_prog[lk_holder[l]]) :
                    lk_prog[lk_holder[l]][i] = rel(l)

\* stop_capture holds AppState and joins the audio-capture thread, which
\* is in its copy with the buffer and the analyzer locked, while the
\* bridge tick waits for AppState and the callback for the buffer
C40_Witness ==
    /\ lk_holder["app_state"] = "command"
    /\ lk_running("command") /\ lk_op("command").op = "join"
    /\ lk_holder["buffer"] = "worker"
    /\ lk_holder["analyzer"] = "worker"
    /\ lk_waits_for("bridge") = "command"
    /\ lk_waits_for("callback") = "worker"

====
